---------------------------- MODULE Spec2Model ----------------------------
(***************************************************************************)
(* State-machine model of the Aino Pro physiological animation core.       *)
(*                                                                         *)
(* Numbers.  The C++ code computes in IEEE float.  The model computes in   *)
(* signed fixed point with six decimals: the integer v stands for the real *)
(* v / ONE.  Products and quotients are truncated toward zero, so a value  *)
(* can differ from the float result in its last digits; no property below  *)
(* depends on those digits.  TLC integers are 32 bits wide, so FMul splits *)
(* its operands to keep every intermediate product in range.               *)
(*                                                                         *)
(* Specifications.  The subsystems do not share state except where the     *)
(* code shares it (the engine latch, the process-wide grid size, the       *)
(* function-local statics of PhysiologicalActor::update).  Each subsystem  *)
(* has its own next-state relation and specification over the one set of   *)
(* variables; a specification leaves the other subsystems' variables at    *)
(* their constructed values.                                               *)
(***************************************************************************)
EXTENDS Integers, Sequences, FiniteSets, TLC

(***************************************************************************)
(* Fixed-point kernel                                                      *)
(***************************************************************************)
ONE == 1000 * 1000
KILO == 500 + 500

\* The decimal n/d as a fixed-point value (n, d integers, d > 0).
Dec(n, d) == IF n >= 0 THEN (n * ONE) \div d ELSE -(((-n) * ONE) \div d)

Abs(x) == IF x < 0 THEN -x ELSE x
Sgn(x) == IF x < 0 THEN -1 ELSE IF x > 0 THEN 1 ELSE 0
Max(a, b) == IF a >= b THEN a ELSE b
Min(a, b) == IF a <= b THEN a ELSE b

\* std::clamp(v, lo, hi)
Clamp(v, lo, hi) == IF v < lo THEN lo ELSE IF hi < v THEN hi ELSE v

\* a * b of two fixed-point values, truncated toward zero.
FMul(a, b) ==
    LET x  == Abs(a)
        y  == Abs(b)
        x1 == x \div KILO
        x0 == x % KILO
        y1 == y \div KILO
        y0 == y % KILO
        m  == x1 * y1 + (x1 * y0 + x0 * y1) \div KILO + (x0 * y0) \div ONE
    IN  IF Sgn(a) * Sgn(b) < 0 THEN -m ELSE m

\* Long division of (hi * ONE + lo) by den, digit by digit in base 10, with
\* 0 <= lo < ONE, 0 <= hi < den: the quotient floor((hi*ONE+lo)/den) < ONE.
RECURSIVE LongDiv(_, _, _, _)
LongDiv(rem, lo, den, digits) ==
    IF digits = 0 THEN 0
    ELSE LET p   == digits - 1
             pw  == IF p = 5 THEN 100000 ELSE IF p = 4 THEN 10000
                    ELSE IF p = 3 THEN 1000 ELSE IF p = 2 THEN 100
                    ELSE IF p = 1 THEN 10 ELSE 1
             d   == (lo \div pw) % 10
             cur == rem * 10 + d
         IN  (cur \div den) * pw + LongDiv(cur % den, lo, den, p)

\* a / b of two fixed-point values (b # 0), truncated toward zero.  A divisor
\* above 2 * 10^8 is divided with one digit less, so that the long division
\* stays within 32 bits.
FDiv(a, b) ==
    LET big == Abs(b) > 200 * ONE
        x == IF big THEN Abs(a) \div 10 ELSE Abs(a)
        y == IF big THEN Abs(b) \div 10 ELSE Abs(b)
        q == (x \div y) * ONE + LongDiv(x % y, 0, y, 6)
    IN  IF Sgn(a) * Sgn(b) < 0 THEN -q ELSE q

\* floor(sqrt(n)) of a natural number n < 2^31, by bisection.
RECURSIVE ISqrtBis(_, _, _)
ISqrtBis(n, lo, hi) ==
    IF lo >= hi THEN lo
    ELSE LET mid == (lo + hi + 1) \div 2
         IN  IF mid * mid <= n THEN ISqrtBis(n, mid, hi)
             ELSE ISqrtBis(n, lo, mid - 1)

ISqrt(n) == ISqrtBis(n, 0, Min(n, 46340))

\* exp(x) by the Taylor series for |x| <= 1/2 and exp(x) = exp(x/2)^2 above.
RECURSIVE ExpSeries(_, _, _)
ExpSeries(x, term, k) ==
    IF term = 0 \/ k > 12 THEN 0
    ELSE term + ExpSeries(x, FMul(term, x) \div k, k + 1)

RECURSIVE FExp(_)
FExp(x) ==
    IF x < -20 * ONE THEN 0
    ELSE IF Abs(x) > ONE \div 2
         THEN LET h == FExp(x \div 2) IN FMul(h, h)
         ELSE ExpSeries(x, ONE, 1)


(***************************************************************************)
(* Bounds of the model (not program constants)                             *)
(***************************************************************************)
\* MotorNeuronPool::step calls in a run of the pool specification.
MaxPoolSteps == 2
\* add_renshaw_inhibition calls in a run of the pool specification.
MaxRenshawAdds == 1
\* SpinalCord::step calls (frames) in a run of the cord specification.
MaxCordFrames == 4
\* Steps of the strain ramp in each direction; a run of the tendon
\* specification makes at most twice as many compute_stress calls.
RampHalfSteps == 2
\* MetabolicSystem::update calls in a run of the metabolism specification.
MaxMetabolicUpdates == 4
\* Engine::initialize calls, Engine::set_accuracy calls and Muscle::step
\* calls in a run of the engine specification.
MaxInitializeCalls == 2
MaxAccuracyCalls == 1
MaxMuscleSteps == 1
\* PhysiologicalActor::update calls, over all actors, in a run of the actor
\* specification.
MaxActorFrames == 4
\* Calls on the joints and on the pose buffer in a run of the skeleton
\* specification.
MaxSkeletonCalls == 3
\* PhysiologicalActor::on_evaluate calls, over all actors, in a run of the
\* evaluation specification.
MaxEvaluateFrames == 2

VARIABLES
    pool,           \* a MotorNeuronPool driven through its public interface
    poolOp,         \* the name of the last operation applied to pool
    poolSteps,      \* MotorNeuronPool::step calls so far
    poolAdds,       \* add_renshaw_inhibition calls so far
    cord,           \* SpinalCord::segments, a sequence of SpinalSegment
    cordOp,         \* the last SpinalCord::step call, with its arguments
    cordFrames,     \* SpinalCord::step calls so far
    cordSustained,  \* TRUE while every call so far passed the all-ones vector
    tendon,         \* a TendonNonlinear
    tendonOut,      \* the stress the last compute_stress call returned
    tendonTrace,    \* the operations applied to tendon, in order, each with
                    \* its arguments and the hysteresis_loss it left
    metabolism,     \* a MetabolicSystem
    metaUpdates,    \* MetabolicSystem::update calls so far
    metaIdle,       \* TRUE while every call so far passed activation 0
    s_initialized,  \* Engine::s_initialized, the process-wide latch
    t_config,       \* Engine::t_config of each thread
    t_recorder,     \* Engine::t_recorder of each thread (NULL or a recorder)
    GRID_SIZE,      \* HuxleyFiber::GRID_SIZE, process-wide
    initPc,         \* where each thread stands in Engine::initialize
    initArg,        \* the cfg argument of each thread's call in progress
    initCalls,      \* Engine::initialize calls begun so far
    initPassed,     \* how many of them passed the latch
    initWinner,     \* the thread and argument of the first call that passed
    accuracyCalls,  \* Engine::set_accuracy calls so far
    engineLast,     \* the last engine call each thread has returned from
    engineOp,       \* the last engine call or muscle step in the process; a
                    \* muscle step is recorded with the call it came after
    engineMuscle,   \* a Muscle of the process
    muscleSteps,    \* Muscle::step calls on engineMuscle so far
    actors,         \* the PhysiologicalActor objects of the process
    frame_counter,  \* the static frame_counter of PhysiologicalActor::update
    timestamp,      \* the static timestamp of PhysiologicalActor::update
    actorFrames,    \* update calls on each actor so far
    metabolismLog,  \* for each actor, the metabolism.update calls its
                    \* updates made: the actor's frame, the frame's dt and
                    \* the arguments passed
    actorInput,     \* the input argument of each actor's latest update
    actorPose,      \* the PoseBuffer each actor is evaluated into
    skeleton,       \* an ArticulatedSkeleton
    pose,           \* the PoseBuffer the skeleton is written to
    skelOp,         \* the last call on the skeleton's joints or on pose
    skelCalls,      \* such calls so far
    dataRecorder,   \* a DataRecorder from its construction to its teardown
    recorded,       \* the samples passed to its record_frame, in call order
    recorderOp,     \* the last call on dataRecorder
    huxleyFiber,    \* a HuxleyFiber stepped while the grid size changes
    fiberOp,        \* the last call: a step of huxleyFiber or a grid change
    fiberSteps,     \* HuxleyFiber::step calls on huxleyFiber so far
    segment,        \* a SpinalSegment used through its public interface
    segmentOp,      \* the last call on segment, with its arguments
    segmentCalls,   \* calls on segment so far
    defaultActor,   \* a PhysiologicalActor built with the default muscle count
    defaultInput,   \* the bridge of its latest evaluation
    defaultPose,    \* the PoseBuffer it is evaluated into
    defaultFrames   \* its evaluations so far

poolVars == <<pool, poolOp, poolSteps, poolAdds>>
cordVars == <<cord, cordOp, cordFrames, cordSustained>>
tendonVars == <<tendon, tendonOut, tendonTrace>>
metaVars == <<metabolism, metaUpdates, metaIdle>>
engineState == <<s_initialized, t_config, t_recorder, GRID_SIZE>>
engineHistory == <<initPc, initArg, initCalls, initPassed, initWinner,
                   accuracyCalls, engineLast, engineOp>>
engineVars == <<engineState, engineHistory, engineMuscle, muscleSteps>>
actorVars ==
    <<actors, frame_counter, timestamp, actorFrames, metabolismLog,
      actorInput, actorPose>>
skeletonVars == <<skeleton, pose, skelOp, skelCalls>>
recorderVars == <<dataRecorder, recorded, recorderOp>>
fiberVars == <<huxleyFiber, fiberOp, fiberSteps>>
segmentVars == <<segment, segmentOp, segmentCalls>>
defaultVars == <<defaultActor, defaultInput, defaultPose, defaultFrames>>

\* What the actions of each specification leave unchanged.
exceptPool ==
    <<cordVars, tendonVars, metaVars, engineVars, actorVars, skeletonVars,
      recorderVars, fiberVars, segmentVars, defaultVars>>
exceptCord ==
    <<poolVars, tendonVars, metaVars, engineVars, actorVars, skeletonVars,
      recorderVars, fiberVars, segmentVars, defaultVars>>
exceptTendon ==
    <<poolVars, cordVars, metaVars, engineVars, actorVars, skeletonVars,
      recorderVars, fiberVars, segmentVars, defaultVars>>
exceptMetabolism ==
    <<poolVars, cordVars, tendonVars, engineVars, actorVars, skeletonVars,
      recorderVars, fiberVars, segmentVars, defaultVars>>
exceptEngine ==
    <<poolVars, cordVars, tendonVars, metaVars, actorVars, skeletonVars,
      recorderVars, fiberVars, segmentVars, defaultVars>>
exceptActor ==
    <<poolVars, cordVars, tendonVars, metaVars, skeletonVars, recorderVars,
      fiberVars, segmentVars, defaultVars>>
exceptSkeleton ==
    <<poolVars, cordVars, tendonVars, metaVars, engineVars, actorVars,
      recorderVars, fiberVars, segmentVars, defaultVars>>
exceptRecorder ==
    <<poolVars, cordVars, tendonVars, metaVars, engineVars, actorVars,
      skeletonVars, fiberVars, segmentVars, defaultVars>>
exceptFiber ==
    <<poolVars, cordVars, tendonVars, metaVars, actorVars, skeletonVars,
      recorderVars, segmentVars, defaultVars>>
exceptSegment ==
    <<poolVars, cordVars, tendonVars, metaVars, engineVars, actorVars,
      skeletonVars, recorderVars, fiberVars, defaultVars>>
exceptDefault ==
    <<poolVars, cordVars, tendonVars, metaVars, skeletonVars, recorderVars,
      fiberVars, segmentVars>>

(***************************************************************************)
(* neuroscience/spinal_circuit: MotorNeuronPool                            *)
(***************************************************************************)
N_NEURONS == 100
NeuronIds == 0 .. (N_NEURONS - 1)

\* Neuron::recruitment_threshold, set once by the constructor:
\* pow(i / N_NEURONS, 1.5) = sqrt(i^3) / 1000, to a resolution of 25e-6.
recruitment_threshold ==
    [i \in NeuronIds |-> ISqrt(i * i * i * 1600) * 25]

\* 200 ms of after-hyperpolarization
AHP_DURATION == Dec(2, 10)

Neuron == [firing_rate |-> 0, fatigue |-> 0, after_hyperpolarization |-> 0]

MotorNeuronPool ==
    [ neurons            |-> [i \in NeuronIds |-> Neuron],
      central_drive      |-> 0,
      spindle_feedback   |-> 0,
      ib_inhibition      |-> 0,
      renshaw_inhibition |-> 0,
      setpoint           |-> 0,
      tendon_force       |-> 0 ]

\* total_drive of MotorNeuronPool::step
total_drive(p) ==
    Clamp(p.central_drive + FMul(p.spindle_feedback, Dec(3, 10))
            - FMul(p.ib_inhibition, Dec(5, 10))
            - FMul(p.renshaw_inhibition, Dec(2, 10)),
          0, ONE)

\* A body of the neuron loop that forgets to silence a neuron that does not
\* fire (used to test the refractory property against the code).
NeuronStepKeepRate(n, threshold, total, dt) ==
    LET drive == total - threshold IN
    IF drive > 0 /\ n.after_hyperpolarization <= 0
    THEN LET rate == Clamp(FMul(FMul(50 * ONE, drive), ONE - n.fatigue),
                           0, 200 * ONE)
         IN  [ firing_rate |-> rate,
               fatigue |-> n.fatigue + FMul(FMul(rate, dt), Dec(1, 10000)),
               after_hyperpolarization |-> AHP_DURATION ]
    ELSE [ firing_rate |-> n.firing_rate,
           fatigue |-> Max(n.fatigue - FMul(dt, Dec(1, 100)), 0),
           after_hyperpolarization |-> n.after_hyperpolarization - dt ]

\* The body of the neuron loop of MotorNeuronPool::step for one neuron.
NeuronStep(n, threshold, total, dt) ==
    LET drive == total - threshold IN
    IF drive > 0 /\ n.after_hyperpolarization <= 0
    THEN LET rate == Clamp(FMul(FMul(50 * ONE, drive), ONE - n.fatigue),
                           0, 200 * ONE)
         IN  [ firing_rate |-> rate,
               fatigue |-> n.fatigue + FMul(FMul(rate, dt), Dec(1, 10000)),
               after_hyperpolarization |-> AHP_DURATION ]
    ELSE [ firing_rate |-> 0,
           fatigue |-> Max(n.fatigue - FMul(dt, Dec(1, 100)), 0),
           after_hyperpolarization |-> n.after_hyperpolarization - dt ]

MotorNeuronPool_step(p, dt) ==
    LET total == total_drive(p) IN
    [p EXCEPT !.neurons =
        [i \in NeuronIds |->
            NeuronStep(p.neurons[i], recruitment_threshold[i], total, dt)]]

\* The sum of the firing rates of the neurons lo .. hi - 1, kept as whole Hz
\* and fractional parts so that it stays within 32 bits.
RECURSIVE RateSumHi(_, _, _)
RateSumHi(neurons, lo, hi) ==
    IF hi <= lo THEN 0
    ELSE IF hi = lo + 1 THEN neurons[lo].firing_rate \div ONE
    ELSE LET mid == (lo + hi) \div 2
         IN  RateSumHi(neurons, lo, mid) + RateSumHi(neurons, mid, hi)

RECURSIVE RateSumLo(_, _, _)
RateSumLo(neurons, lo, hi) ==
    IF hi <= lo THEN 0
    ELSE IF hi = lo + 1 THEN neurons[lo].firing_rate % ONE
    ELSE LET mid == (lo + hi) \div 2
         IN  RateSumLo(neurons, lo, mid) + RateSumLo(neurons, mid, hi)

\* sum / N_NEURONS
get_average_firing_rate(p) ==
    RateSumHi(p.neurons, 0, N_NEURONS) * (ONE \div N_NEURONS)
      + RateSumLo(p.neurons, 0, N_NEURONS) \div N_NEURONS

set_central_drive(p, drive) ==
    [p EXCEPT !.central_drive = Clamp(drive, 0, ONE)]

set_spindle_feedback(p, feedback) ==
    [p EXCEPT !.spindle_feedback = feedback]

set_tendon_force(p, force) ==
    [p EXCEPT !.tendon_force = force]

update_ib_inhibition(p) ==
    LET ib_threshold == Dec(8, 10) IN
    [p EXCEPT !.ib_inhibition =
        IF p.tendon_force > ib_threshold
        THEN FMul(p.tendon_force - ib_threshold, 2 * ONE)
        ELSE 0]

add_renshaw_inhibition(p, inhibition) ==
    [p EXCEPT !.renshaw_inhibition = p.renshaw_inhibition + inhibition]

(***************************************************************************)
(* neuroscience/spinal_circuit: SpinalSegment and SpinalCord               *)
(***************************************************************************)
SpinalSegment == [flexor |-> MotorNeuronPool, extensor |-> MotorNeuronPool]

SpinalSegment_step(seg, desired_torque, joint_angle, joint_velocity, dt) ==
    LET spindle_gain     == 100 * ONE
        spindle_vel_gain == 5 * ONE
        spindle == FMul(joint_angle - seg.flexor.setpoint, spindle_gain)
                     + FMul(joint_velocity, spindle_vel_gain)
        \* the averages of the previous step, read before either pool steps
        f_rate == get_average_firing_rate(seg.flexor)
        e_rate == get_average_firing_rate(seg.extensor)
        renshaw_strength == Dec(3, 10)
        f1 == set_spindle_feedback(seg.flexor, spindle)
        e1 == set_spindle_feedback(seg.extensor, -spindle)
        f2 == set_central_drive(f1, Max(desired_torque, 0))
        e2 == set_central_drive(e1, Max(-desired_torque, 0))
        f3 == update_ib_inhibition(f2)
        e3 == update_ib_inhibition(e2)
        f4 == add_renshaw_inhibition(f3, FMul(e_rate, renshaw_strength))
        e4 == add_renshaw_inhibition(e3, FMul(f_rate, renshaw_strength))
    IN  [ flexor   |-> MotorNeuronPool_step(f4, dt),
          extensor |-> MotorNeuronPool_step(e4, dt) ]

set_emotional_modulation(seg, fear) ==
    LET gamma_gain == ONE + FMul(fear, Dec(5, 10)) IN
    [ flexor   |-> set_spindle_feedback(seg.flexor,
                       FMul(seg.flexor.spindle_feedback, gamma_gain)),
      extensor |-> set_spindle_feedback(seg.extensor,
                       FMul(seg.extensor.spindle_feedback, gamma_gain)) ]

get_net_activation(seg) ==
    get_average_firing_rate(seg.flexor) - get_average_firing_rate(seg.extensor)

\* SpinalCord(int segment_count = 5)
SEGMENT_COUNT == 5

SpinalCord(segment_count) == [i \in 1 .. segment_count |-> SpinalSegment]

\* SpinalCord::step without its length check: it steps the segments that
\* have an entry in the vector.
SpinalCord_stepUnchecked(segments, desired_torques, dt) ==
    [i \in 1 .. Len(segments) |->
        IF i <= Len(desired_torques)
        THEN SpinalSegment_step(segments[i], desired_torques[i], 0, 0, dt)
        ELSE segments[i]]

\* SpinalCord::step.  The loop is an omp parallel for over disjoint segments,
\* so its result is the same in every schedule.  Joint angle and velocity
\* are passed as 0.
SpinalCord_step(segments, desired_torques, dt) ==
    IF Len(desired_torques) # Len(segments)
    THEN segments
    ELSE [i \in 1 .. Len(segments) |->
            SpinalSegment_step(segments[i], desired_torques[i], 0, 0, dt)]

get_muscle_activations(segments) ==
    [i \in 1 .. Len(segments) |-> get_net_activation(segments[i])]


(***************************************************************************)
(* biology/tendon_viscoelastic: TendonNonlinear                            *)
(*                                                                         *)
(* Units.  Strain, strain rate and dt are fixed-point values.  Moduli are  *)
(* whole MPa, time constants whole milliseconds, the returned stress whole *)
(* Pa; the viscous stress and hysteresis_loss are thousandths of a Pa.     *)
(***************************************************************************)
N_TERMS == 5

\* PronyTerm {modulus, tau, strain_memory = 0} of the five terms
PronyTerms ==
    << [modulus |-> 500, tau |-> 100,     strain_memory |-> 0],
       [modulus |-> 300, tau |-> 1000,    strain_memory |-> 0],
       [modulus |-> 200, tau |-> 10000,   strain_memory |-> 0],
       [modulus |-> 100, tau |-> 100000,  strain_memory |-> 0],
       [modulus |-> 50,  tau |-> 1000000, strain_memory |-> 0] >>

TendonNonlinear ==
    [ terms           |-> PronyTerms,
      E_linear        |-> 1200,
      E_nonlinear     |-> 80000,
      epsilon_max     |-> Dec(8, 100),
      viscosity       |-> 1500,
      last_strain     |-> 0,
      hysteresis_loss |-> 0,
      dt_accum        |-> 0 ]

\* exp(-dt / tau) of a term
Decay(term, dt) == FExp(-((dt * KILO) \div term.tau))

\* strain_memory of a term after a call with (strain, dt)
StrainMemory(term, strain, dt) ==
    FMul(term.strain_memory, Decay(term, dt)) + FMul(strain, dt)

\* tau + 1e-6 as the float sum: from 100 s on the float absorbs the 1e-6.
TauPlusEps(term) ==
    IF term.tau >= 100 * KILO THEN term.tau * KILO ELSE term.tau * KILO + 1

\* modulus * strain_memory / (tau + 1e-6), in Pa
Contribution(term, memory) == term.modulus * FDiv(memory, TauPlusEps(term))

RECURSIVE SigmaHistory(_, _, _, _)
SigmaHistory(terms, strain, dt, i) ==
    IF i = 0 THEN 0
    ELSE SigmaHistory(terms, strain, dt, i - 1)
           + Contribution(terms[i], StrainMemory(terms[i], strain, dt))

\* sigma_viscous = viscosity * strain_rate * (1 + epsilon * 5), in mPa
SigmaViscous(t, epsilon, strain_rate) ==
    FMul(FMul(t.viscosity * KILO, strain_rate), ONE + 5 * epsilon)

\* The test strain_rate * (strain - last_strain) < 0 that guards the
\* hysteresis accumulation, decided by the signs of the two factors.
Dissipates(t, strain, strain_rate) ==
    Sgn(strain_rate) * Sgn(strain - t.last_strain) < 0

\* hysteresis_loss after a call
HysteresisLoss(t, strain, strain_rate, dt) ==
    LET epsilon == Clamp(strain, 0, t.epsilon_max)
        sigma_viscous == SigmaViscous(t, epsilon, strain_rate)
    IN  IF Dissipates(t, strain, strain_rate)
        THEN t.hysteresis_loss
               + Abs(FMul(FMul(sigma_viscous, strain_rate), dt))
        ELSE t.hysteresis_loss

\* TendonNonlinear::compute_stress: the tendon after the call and the value
\* returned.
compute_stress(t, strain, strain_rate, dt) ==
    LET epsilon == Clamp(strain, 0, t.epsilon_max)
        sigma_elastic == t.E_linear * epsilon
                           + t.E_nonlinear * FMul(epsilon, epsilon)
        sigma_viscous == SigmaViscous(t, epsilon, strain_rate)
        sigma_history == SigmaHistory(t.terms, strain, dt, N_TERMS)
        sigma_total == sigma_elastic
                         + Sgn(sigma_viscous) * (Abs(sigma_viscous) \div KILO)
                         + sigma_history
        max_stress == t.E_nonlinear
                        * FMul(t.epsilon_max, t.epsilon_max)
    IN  [ tendon |->
            [t EXCEPT
               !.dt_accum = t.dt_accum + dt,
               !.terms = [i \in 1 .. N_TERMS |->
                            [t.terms[i] EXCEPT !.strain_memory =
                                StrainMemory(t.terms[i], strain, dt)]],
               !.hysteresis_loss = HysteresisLoss(t, strain, strain_rate, dt),
               !.last_strain = strain],
          stress |-> Clamp(sigma_total, 0, max_stress) ]

get_hysteresis_loss(t) == t.hysteresis_loss

reset_hysteresis(t) == [t EXCEPT !.hysteresis_loss = 0]

set_linear_mode(t) ==
    [t EXCEPT !.terms = [i \in 1 .. N_TERMS |->
                            [t.terms[i] EXCEPT !.modulus = 0]],
              !.viscosity = 0,
              !.E_nonlinear = 0]

get_stiffness(t) == t.E_linear

(***************************************************************************)
(* biology/metabolism: MetabolicSystem                                     *)
(***************************************************************************)
MetabolicSystem ==
    [ ATP |-> ONE, PCr |-> ONE, glycogen |-> ONE, lactate |-> 0,
      pyruvate |-> 0, time_since_exercise |-> 0 ]

k_ATPase == Dec(5, 100)
k_CK == Dec(25, 10)
k_Glycolysis == Dec(3, 100)
k_Oxidative == Dec(2, 100)
k_LactateClearance == Dec(1, 100)
LactateThreshold == Dec(4, 10)

smoothstep(x, edge0, edge1) ==
    LET y == Clamp(FDiv(x - edge0, edge1 - edge0), 0, ONE)
    IN  FMul(FMul(y, y), 3 * ONE - 2 * y)

\* J_glycolysis of a state: glycolysis under pH inhibition.  It does not
\* depend on muscle_activation.
J_glycolysis(m) ==
    LET H_concentration == FMul(m.lactate, Dec(1, 10))
        glycolysis_inhibition ==
            FDiv(ONE, ONE + FExp(FDiv(H_concentration - Dec(5, 100),
                                      Dec(1, 100))))
    IN  FMul(FMul(k_Glycolysis, m.glycogen), glycolysis_inhibition)

\* MetabolicSystem::update without step 8: ATP integrated and left as it
\* comes out, the other pools untouched.
MetabolicSystem_updateUnclamped(m, muscle_activation, dt) ==
    [m EXCEPT
       !.time_since_exercise = m.time_since_exercise + dt,
       !.ATP = m.ATP + FMul(dt, FMul(FMul(k_CK, m.PCr), ONE - m.ATP)
                                  - FMul(k_ATPase, muscle_activation))]

\* MetabolicSystem::update
MetabolicSystem_update(m, muscle_activation, dt) ==
    LET time == m.time_since_exercise + dt
        J_ATP_hydrolysis == FMul(k_ATPase, muscle_activation)
        J_PCr_synthesis == FMul(FMul(k_CK, m.PCr), ONE - m.ATP)
        J_PCr_recovery == FMul(FMul(k_CK, Dec(1, 10)), ONE - m.PCr)
        J_gly == J_glycolysis(m)
        oxidative_delay == smoothstep(time, 0, 30 * ONE)
        J_oxidative == FMul(FMul(k_Oxidative, oxidative_delay), m.pyruvate)
        J_lactate_production == FMul(J_gly, Dec(5, 10))
        J_lactate_clearance ==
            FDiv(FMul(k_LactateClearance, m.lactate), ONE + m.lactate)
        J_pyruvate_to_lactate ==
            FMul(J_gly, Dec(5, 10)) - FMul(J_oxidative, Dec(7, 10))
        J_pyruvate_to_acetyl == FMul(J_oxidative, Dec(7, 10))
    IN  [ time_since_exercise |-> time,
          ATP |-> Clamp(m.ATP + FMul(dt, J_PCr_synthesis - J_ATP_hydrolysis),
                        0, ONE),
          PCr |-> Clamp(m.PCr + FMul(dt, J_PCr_recovery - J_PCr_synthesis),
                        Dec(3, 10), ONE),
          glycogen |-> Clamp(m.glycogen + FMul(dt, Dec(5, 1000) - J_gly),
                             0, ONE),
          lactate |-> Clamp(m.lactate + FMul(dt, J_lactate_production
                                                   - J_lactate_clearance),
                            0, ONE),
          pyruvate |-> Clamp(m.pyruvate + FMul(dt, J_pyruvate_to_lactate
                                                     - J_pyruvate_to_acetyl),
                             0, Dec(2, 10)) ]

get_fatigue_factor(m) ==
    LET energy_deficit == FMul(ONE - m.ATP, Dec(4, 10))
                            + FMul(ONE - m.PCr, Dec(4, 10))
        acidosis == IF m.lactate > LactateThreshold
                    THEN FMul(m.lactate - LactateThreshold, Dec(15, 10))
                    ELSE 0
    IN  Clamp(energy_deficit + acidosis, 0, ONE)

get_perceived_exertion(m) == 6 * ONE + FMul(14 * ONE, get_fatigue_factor(m))

get_recovery_time(m) ==
    LET pcr_deficit == FDiv(ONE - m.PCr, FMul(k_CK, Dec(1, 10)))
        lactate_clear == FDiv(m.lactate, k_LactateClearance)
    IN  Max(pcr_deficit, lactate_clear)

MetabolicSystem_get_state(m) ==
    <<m.ATP, m.PCr, m.glycogen, m.lactate, get_perceived_exertion(m)>>

(***************************************************************************)
(* biology/muscle_huxley: HuxleyFiber, Muscle, MuscleSystem                *)
(*                                                                         *)
(* Units.  n[i] is a fraction in fixed point.  The rates f, g and dn_dt    *)
(* are in thousandths per second (g reaches 2505 per second on the largest *)
(* grid).  Positions x are whole nanometres (DX = 1).  The cross-bridge    *)
(* part of F_ce is kept in units of k * 10^-12 m (k the cross-bridge       *)
(* stiffness), the Hill part in newtons in fixed point.                    *)
(*                                                                         *)
(* A Muscle steps all of its fibers with the same arguments and constructs *)
(* them alike, so its fibers are equal at all times: the model keeps the   *)
(* number of fibers and the state every one of them has.                   *)
(***************************************************************************)
DX == 1
\* HuxleyFiber::LAMBDA (the upper-case word is reserved in TLA+)
Lambda == 10
HuxleyParams ==
    [ f1 |-> 200 * KILO, g1 |-> 10 * KILO, g2 |-> 50 * KILO,
      v_max |-> 2500, a |-> 25 * ONE, b |-> Dec(25, 10) ]

\* std::exp(-std::abs(x) / Lambda) for the distances |x| of the largest grid.
BindingShape == [d \in 0 .. 500 |-> FExp(-((d * ONE) \div Lambda))]

\* std::vector<float>::resize(size, 0.0f)
Resize(n, size) == [i \in 1 .. size |-> IF i <= Len(n) THEN n[i] ELSE 0]

\* HuxleyFiber::HuxleyFiber with GRID_SIZE = grid
HuxleyFiber(grid) ==
    [ n |-> Resize(<<>>, grid), F_ce |-> [cross_bridge |-> 0, hill |-> 0] ]

\* dn_dt * dt as a fraction, for dn_dt in thousandths per second.  The sum
\* n[i] + dn_dt * dt is clamped to [0, 1] next, so a product beyond +-1 is
\* cut to +-1 (which also keeps it within 32 bits).
RateTimesDt(dn_dt, dt) ==
    IF dt = 0 THEN 0
    ELSE IF Abs(dn_dt) >= (KILO * ONE) \div dt + 1 THEN Sgn(dn_dt) * ONE
    ELSE FMul(dn_dt, dt * KILO)

\* The loop body of HuxleyFiber::step without the clamp of n[i]
CellUpdateUnclamped(n, i, grid, activation, v_rel, dt) ==
    LET x == (i - grid \div 2) * DX
        f == FMul(FMul(HuxleyParams.f1, BindingShape[Abs(x)]), activation)
        g == HuxleyParams.g1 + (HuxleyParams.g2 * Max(x, 0)) \div Lambda
                + v_rel \div 100
        i_left == Max(i - 1, 0)
        i_right == Min(i + 1, grid - 1)
        convection ==
            FMul(v_rel, n[i_right + 1] - n[i_left + 1]) \div (2 * DX * KILO)
        dn_dt == FMul(f, ONE - n[i + 1]) - FMul(g, n[i + 1]) - convection
    IN  n[i + 1] + RateTimesDt(dn_dt, dt)

\* The value the loop body of HuxleyFiber::step leaves in n[i] (i from 0;
\* the sequence n is indexed from 1).
CellUpdate(n, i, grid, activation, v_rel, dt) ==
    LET x == (i - grid \div 2) * DX
        f == FMul(FMul(HuxleyParams.f1, BindingShape[Abs(x)]), activation)
        g == HuxleyParams.g1 + (HuxleyParams.g2 * Max(x, 0)) \div Lambda
                + v_rel \div 100
        i_left == Max(i - 1, 0)
        i_right == Min(i + 1, grid - 1)
        convection ==
            FMul(v_rel, n[i_right + 1] - n[i_left + 1]) \div (2 * DX * KILO)
        dn_dt == FMul(f, ONE - n[i + 1]) - FMul(g, n[i + 1]) - convection
    IN  Clamp(n[i + 1] + RateTimesDt(dn_dt, dt), 0, ONE)

\* The loop of HuxleyFiber::step over the cells lo .. hi - 1, in order and in
\* place (the left neighbour of a cell is already updated when it is read).
RECURSIVE CellSweep(_, _, _, _, _, _, _)
CellSweep(n, lo, hi, grid, activation, v_rel, dt) ==
    IF hi <= lo THEN n
    ELSE IF hi = lo + 1
    THEN [n EXCEPT ![lo + 1] = CellUpdate(n, lo, grid, activation, v_rel, dt)]
    ELSE LET mid == (lo + hi) \div 2
             left == CellSweep(n, lo, mid, grid, activation, v_rel, dt)
         IN  IF Len(left) = Len(n)
             THEN CellSweep(left, mid, hi, grid, activation, v_rel, dt)
             ELSE left

\* sum_force: the sum of n[i] * k * x over the cells lo .. hi - 1.
RECURSIVE SumForce(_, _, _, _)
SumForce(n, lo, hi, grid) ==
    IF hi <= lo THEN 0
    ELSE IF hi = lo + 1
    THEN (n[lo + 1] \div KILO) * ((lo - grid \div 2) * DX)
    ELSE LET mid == (lo + hi) \div 2
         IN  SumForce(n, lo, mid, grid) + SumForce(n, mid, hi, grid)

\* HuxleyFiber::step with GRID_SIZE = grid
HuxleyFiber_step(fiber, grid, activation, length, velocity, dt) ==
    LET n0 == IF Len(fiber.n) # grid THEN Resize(fiber.n, grid) ELSE fiber.n
        v_rel == velocity \div HuxleyParams.v_max
        n1 == CellSweep(n0, 0, grid, grid, activation, v_rel, dt)
    IN  [ n |-> n1,
          F_ce |-> [ cross_bridge |-> SumForce(n1, 0, grid, grid),
                     hill |-> IF velocity > 0
                              THEN FDiv(FMul(HuxleyParams.a, velocity),
                                        HuxleyParams.b + velocity)
                              ELSE 0 ] ]

HuxleyFiber_get_force(fiber) == fiber.F_ce

\* Muscle::Muscle(fiber_count) with GRID_SIZE = grid
Muscle(fiber_count, grid) ==
    [ fiber_count |-> fiber_count, fiber |-> HuxleyFiber(grid),
      pennation_angle |-> 0, mass |-> Dec(3, 10), length |-> Dec(3, 10),
      velocity |-> 0, output_force |-> [cross_bridge |-> 0, hill |-> 0] ]

\* Muscle::step with GRID_SIZE = grid.  The fibers are equal, so the mean of
\* their forces is the force of one; pennation_angle is 0 and its cosine 1.
Muscle_step(m, grid, activation, dt) ==
    LET fiber == HuxleyFiber_step(m.fiber, grid, activation, m.length,
                                  m.velocity, dt)
        force == HuxleyFiber_get_force(fiber)
    IN  [m EXCEPT !.fiber = fiber,
                  !.output_force =
                      [ cross_bridge |-> FMul(force.cross_bridge, m.mass),
                        hill |-> FMul(force.hill, m.mass) ]]

Muscle_get_force(m) == m.output_force

\* Muscle::set_global_grid_size: the new HuxleyFiber::GRID_SIZE
set_global_grid_size(size) == size

\* MuscleSystem::reconfigure_all: the body is empty, the grid size stays.
reconfigure_all(grid) == grid

(***************************************************************************)
(* aino_pro: Config, Engine; systems/data_recorder: DataRecorder           *)
(***************************************************************************)
Threads == {"main", "worker"}

Accuracy == {"Realtime", "Standard", "High", "Extreme"}

FeatureFlags ==
    [ enable_metabolism |-> TRUE, enable_emotion |-> TRUE,
      enable_neural |-> TRUE, enable_hysteresis |-> TRUE,
      enable_fatigue |-> TRUE, enable_thermal |-> FALSE ]

PerformanceBudget ==
    [ cpu_ms_per_frame |-> 3 * ONE, muscle_update_ratio |-> ONE,
      max_muscle_grids |-> 100 ]

HumanParams ==
    [ muscle_fiber_composition |-> Dec(1, 2), fitness_level |-> Dec(7, 10),
      age |-> 25 * ONE ]

\* A default-constructed Config
Config ==
    [ accuracy |-> "Standard", features |-> FeatureFlags,
      budget |-> PerformanceBudget, physiology |-> HumanParams ]

\* The grid size Engine::initialize derives from an accuracy tier.
TierGridSize(accuracy) ==
    IF accuracy = "Realtime" THEN 10
    ELSE IF accuracy = "Standard" THEN 100
    ELSE IF accuracy = "High" THEN 200 ELSE 1000

\* The null pointer of a std::unique_ptr<DataRecorder> (a record, so that it
\* compares with recorders).
NULL == [pointer |-> "nullptr"]

\* A default-constructed DataRecorder (start_session not called).  disk is
\* the rows written to the emotion dataset of the session file.
DataRecorder ==
    [ buffer |-> <<>>, file_handle |-> -1, emotion_dset |-> -1,
      metabolism_dset |-> -1, muscle_dset |-> -1, pose_dset |-> -1,
      current_row |-> 0, disk |-> <<>> ]

BUFFER_SIZE == 1024

\* DataRecorder::flush_to_disk: the rows of the buffer go to the emotion
\* dataset when there is one.
flush_to_disk(r) ==
    IF Len(r.buffer) = 0 \/ r.emotion_dset < 0 THEN r
    ELSE [r EXCEPT
            !.disk = r.disk \o [i \in 1 .. Len(r.buffer) |->
                                   r.buffer[i].emotion_vector],
            !.current_row = r.current_row + Len(r.buffer)]

record_frame(r, sample) ==
    LET pushed == [r EXCEPT !.buffer = Append(r.buffer, sample)]
    IN  IF Len(pushed.buffer) >= BUFFER_SIZE
        THEN [flush_to_disk(pushed) EXCEPT !.buffer = <<>>]
        ELSE pushed

\* DataRecorder::start_session: H5Fcreate gives the file or fails (the throw
\* leaves the recorder without a dataset); H5Dcreate gives the empty
\* /emotion dataset of the new file.
start_session(r, created) ==
    IF ~created THEN [r EXCEPT !.file_handle = -1]
    ELSE [r EXCEPT !.file_handle = 1, !.emotion_dset = 1, !.disk = <<>>]

\* DataRecorder::~DataRecorder: a last flush, then the buffer goes with the
\* object.
DataRecorder_teardown(r) == [flush_to_disk(r) EXCEPT !.buffer = <<>>]

\* s_initialized.exchange(true): the value read and the value left.
LatchKeepsOpen(flag) == [old |-> flag, new |-> flag]
LatchExchange(flag) == [old |-> flag, new |-> TRUE]

get_recorder(t) == t_recorder[t]
get_config(t) == t_config[t]

\* No engine call yet (history).
NoCall == [op |-> "none"]

(***************************************************************************)
(* psychology/emotion_model: EmotionProfile, MoodDynamics                  *)
(***************************************************************************)
Primary ==
    [ joy |-> 0, sadness |-> 0, anger |-> 0, fear |-> 0, surprise |-> 0,
      disgust |-> 0, trust |-> 0, anticipation |-> 0 ]

Social ==
    [ guilt |-> 0, shame |-> 0, pride |-> 0, envy |-> 0, gratitude |-> 0,
      love |-> 0, hate |-> 0, anxiety |-> 0 ]

Mood == [depression |-> 0, stress |-> 0, valence |-> 0, arousal |-> 0]

EmotionProfile == [primary |-> Primary, social |-> Social, mood |-> Mood]

pleasure(e) == e.mood.valence

arousal(e) ==
    FMul(e.primary.joy, Dec(3, 10)) + FMul(e.primary.anger, Dec(8, 10))
      + FMul(e.primary.fear, Dec(9, 10)) + e.mood.arousal

dominance(e) ==
    (FMul(e.primary.anger, Dec(7, 10)) + FMul(e.primary.trust, Dec(5, 10)))
      - (FMul(e.primary.fear, Dec(8, 10))
           + FMul(e.primary.sadness, Dec(6, 10)))

\* EmotionProfile::to_vector: 23 entries listed, the rest of the 30 zero.
to_vector(e) ==
    << e.primary.joy, e.primary.sadness, e.primary.anger, e.primary.fear,
       e.primary.surprise, e.primary.disgust, e.primary.trust,
       e.primary.anticipation,
       e.social.guilt, e.social.shame, e.social.pride, e.social.envy,
       e.social.gratitude, e.social.love, e.social.hate, e.social.anxiety,
       e.mood.depression, e.mood.stress, e.mood.valence, e.mood.arousal,
       pleasure(e), arousal(e), dominance(e) >>
      \o [i \in 1 .. 7 |-> 0]

DEPRESSION_HALFLIFE == 86400
STRESS_HALFLIFE == 3600

MoodDynamics == [depression_accumulator |-> 0, stress_accumulator |-> 0]

\* a * exp(-dt * 0.693 / halflife)
HalfLifeDecay(a, dt, halflife) ==
    FMul(a, FExp(-(FMul(dt, Dec(693, 1000)) \div halflife)))

MoodDynamics_update(m, dt, instant_emotion) ==
    LET depression ==
            IF instant_emotion.primary.sadness > Dec(7, 10)
            THEN m.depression_accumulator + FMul(dt, Dec(1, 10))
            ELSE m.depression_accumulator - FMul(dt, Dec(1, 100))
        stress ==
            IF instant_emotion.primary.fear > Dec(6, 10)
            THEN m.stress_accumulator + FMul(dt, Dec(5, 10))
            ELSE m.stress_accumulator - FMul(dt, Dec(2, 10))
    IN  [ depression_accumulator |->
              Clamp(HalfLifeDecay(depression, dt, DEPRESSION_HALFLIFE),
                    0, ONE),
          stress_accumulator |->
              Clamp(HalfLifeDecay(stress, dt, STRESS_HALFLIFE), 0, ONE) ]

MoodDynamics_get_state(m) ==
    [ depression |-> m.depression_accumulator,
      stress |-> m.stress_accumulator,
      valence |-> ONE - FMul(m.depression_accumulator, Dec(5, 10)),
      arousal |-> FMul(m.stress_accumulator, Dec(3, 10)) ]

(***************************************************************************)
(* psychology/cognitive_appraisal: Stimulus, CognitiveAppraiser            *)
(***************************************************************************)
Vec3 == <<0, 0, 0>>

Stimulus(category, intensity, urgency, familiarity, predictability) ==
    [ category |-> category, intensity |-> intensity, position |-> Vec3,
      urgency |-> urgency, familiarity |-> familiarity,
      predictability |-> predictability ]

primary_appraisal(stim) ==
    IF stim.category \in {"threat", "enemy"}
    THEN [Primary EXCEPT
            !.fear = FMul(stim.intensity, 2 * ONE - stim.familiarity),
            !.anger = FMul(FMul(stim.intensity, ONE - stim.predictability),
                           Dec(5, 10)),
            !.surprise = FMul(ONE - stim.predictability, stim.urgency)]
    ELSE IF stim.category \in {"reward", "friend"}
    THEN [Primary EXCEPT
            !.joy = stim.intensity,
            !.trust = FMul(stim.intensity, stim.familiarity)]
    ELSE IF stim.category = "loss"
    THEN [Primary EXCEPT !.sadness = stim.intensity]
    ELSE Primary

\* ctx.parameters is a record: its fields are the keys present in the map.
secondary_appraisal(stim, ctx) ==
    LET self_efficacy ==
            IF "self_efficacy" \in DOMAIN ctx.parameters
            THEN ctx.parameters.self_efficacy ELSE Dec(5, 10)
        resource == ONE - FMul(ctx.emotion.mood.stress, Dec(5, 10))
        controllability == FMul(stim.predictability, Dec(6, 10))
                             + FMul(stim.familiarity, Dec(4, 10))
    IN  FMul(FMul(self_efficacy, resource), controllability)

appraise(stim, ctx) ==
    LET primary == primary_appraisal(stim)
        coping_potential == secondary_appraisal(stim, ctx)
        self_esteem ==
            IF "self_esteem" \in DOMAIN ctx.parameters
            THEN ctx.parameters.self_esteem ELSE Dec(5, 10)
        social ==
            IF coping_potential < Dec(3, 10) /\ stim.intensity > Dec(6, 10)
            THEN [Social EXCEPT
                    !.anxiety = FMul(ONE - coping_potential, stim.intensity),
                    !.shame = FMul(ONE - self_esteem, stim.intensity)]
            ELSE Social
        fear == FMul(primary.fear,
                     ONE + FMul(ctx.emotion.mood.stress, Dec(5, 10)))
        goal_relevance == FMul(stim.urgency, stim.intensity)
    IN  [ emotion |->
              IF goal_relevance < Dec(2, 10) THEN EmotionProfile
              ELSE [ primary |-> [primary EXCEPT !.fear = fear],
                     social |-> social, mood |-> Mood ],
          coping_potential |-> coping_potential,
          goal_relevance |-> goal_relevance ]

(***************************************************************************)
(* biology/multibody: BallJoint, ArticulatedSkeleton                       *)
(***************************************************************************)
\* JointIndex (joints are counted from 0; the sequence is indexed from 1)
SPINE == 0
SHOULDER == 1
JOINT_COUNT == 23

Capsule ==
    [ damping |-> Dec(25, 10), stiffness |-> 100 * ONE, friction |-> ONE,
      rest_angle |-> Vec3,
      limit_min |-> <<Dec(-28, 10), Dec(-15, 10), Dec(-8, 10)>>,
      limit_max |-> <<Dec(28, 10), Dec(15, 10), Dec(8, 10)>> ]

BallJoint ==
    [angle |-> Vec3, velocity |-> Vec3, torque |-> Vec3, capsule |-> Capsule]

Cube(v) == FMul(FMul(v, v), v)

BallJoint_compute_torque(j, muscle_torque, external_force, lever_arm_length, dt) ==
    LET c == j.capsule
        elastic == [i \in 1 .. 3 |->
            FMul(c.stiffness, j.angle[i] - c.rest_angle[i])
              + (IF j.angle[i] < c.limit_min[i]
                 THEN FMul(500 * ONE, Cube(j.angle[i] - c.limit_min[i]))
                 ELSE 0)
              + (IF j.angle[i] > c.limit_max[i]
                 THEN FMul(500 * ONE, Cube(j.angle[i] - c.limit_max[i]))
                 ELSE 0)]
        viscous == [i \in 1 .. 3 |-> FMul(j.velocity[i], -c.damping)]
        friction == [i \in 1 .. 3 |->
            IF Abs(j.velocity[i]) < Dec(1, 100)
            THEN Clamp(muscle_torque[i], -c.friction, c.friction)
            ELSE FMul(-c.friction, IF j.velocity[i] > 0 THEN ONE ELSE -ONE)]
        ex == FMul(external_force[1], lever_arm_length)
        ey == FMul(external_force[2], lever_arm_length)
        ez == FMul(external_force[3], lever_arm_length)
        external_torque == <<ey - ez, ez - ex, ex - ey>>
    IN  [j EXCEPT !.torque = [i \in 1 .. 3 |->
            muscle_torque[i] + elastic[i] + viscous[i] + friction[i]
              + external_torque[i]]]

\* The velocity of one axis after BallJoint::forward_dynamics
AxisVelocity(j, i, inertia, dt) ==
    FMul(j.velocity[i] + FMul(FDiv(j.torque[i], inertia), dt),
         Dec(999, 1000))

\* BallJoint::forward_dynamics without the clamp of the angle
BallJoint_forward_dynamicsUnclamped(j, inertia, dt) ==
    [j EXCEPT
       !.velocity = [i \in 1 .. 3 |-> AxisVelocity(j, i, inertia, dt)],
       !.angle = [i \in 1 .. 3 |->
           j.angle[i] + FMul(AxisVelocity(j, i, inertia, dt), dt)]]

BallJoint_forward_dynamics(j, inertia, dt) ==
    [j EXCEPT
       !.velocity = [i \in 1 .. 3 |-> AxisVelocity(j, i, inertia, dt)],
       !.angle = [i \in 1 .. 3 |->
           Clamp(j.angle[i] + FMul(AxisVelocity(j, i, inertia, dt), dt),
                 j.capsule.limit_min[i], j.capsule.limit_max[i])]]

\* ArticulatedSkeleton::ArticulatedSkeleton(joint_count), joint_count > 1
ArticulatedSkeleton(joint_count) ==
    [ joints |-> [i \in 1 .. joint_count |->
          IF i = SPINE + 1
          THEN [BallJoint EXCEPT !.capsule.stiffness = 150 * ONE]
          ELSE IF i = SHOULDER + 1
          THEN [BallJoint EXCEPT
                  !.capsule.limit_min = <<-2 * ONE, -ONE, Dec(-5, 10)>>,
                  !.capsule.limit_max = <<Dec(5, 10), ONE, Dec(5, 10)>>]
          ELSE BallJoint],
      inertia |-> [i \in 1 .. joint_count |-> ONE],
      external_forces |-> [i \in 1 .. joint_count |-> Vec3],
      lever_arm |-> Dec(1, 10) ]

\* ArticulatedSkeleton::forward_dynamics(dt), which the actor calls every
\* frame.  The class in multibody has no such member; this is the per-joint
\* forward pass the specification describes for it (section 4.7): the torque
\* of each joint from its external force, with no muscle torque, then the
\* integration with the joint's inertia.
ArticulatedSkeleton_forward_dynamics(s, dt) ==
    [s EXCEPT !.joints = [i \in 1 .. Len(s.joints) |->
        BallJoint_forward_dynamics(
            BallJoint_compute_torque(s.joints[i], Vec3, s.external_forces[i],
                                     s.lever_arm, dt),
            s.inertia[i], dt)]]

get_joint_angles(s) == [i \in 1 .. Len(s.joints) |-> s.joints[i].angle]

(***************************************************************************)
(* aino_math: Quaternion; aino_animation: PoseBuffer                       *)
(***************************************************************************)
\* std::sin and std::cos by their Taylor series, for the half angles of a
\* joint (|x| < 2).
RECURSIVE TrigSeries(_, _, _)
TrigSeries(x, term, k) ==
    IF term = 0 \/ k > 15 THEN 0
    ELSE term + TrigSeries(x, -(FMul(FMul(term, x), x) \div (k * (k + 1))),
                           k + 2)

FSin(x) == TrigSeries(x, x, 2)
FCos(x) == TrigSeries(x, ONE, 1)

\* Quaternion::from_euler
from_euler(roll, pitch, yaw) ==
    LET cr == FCos(roll \div 2)
        sr == FSin(roll \div 2)
        cp == FCos(pitch \div 2)
        sp == FSin(pitch \div 2)
        cy == FCos(yaw \div 2)
        sy == FSin(yaw \div 2)
    IN  [ x |-> FMul(FMul(sr, cp), cy) - FMul(FMul(cr, sp), sy),
          y |-> FMul(FMul(cr, sp), cy) + FMul(FMul(sr, cp), sy),
          z |-> FMul(FMul(cr, cp), sy) - FMul(FMul(sr, sp), cy),
          w |-> FMul(FMul(cr, cp), cy) + FMul(FMul(sr, sp), sy) ]

\* _mm_set_ps(e3, e2, e1, e0): the four lanes, lane 0 first.
mm_set_ps(e3, e2, e1, e0) == <<e0, e1, e2, e3>>

\* PoseBuffer::PoseBuffer(bones)
PoseBuffer(bones) ==
    [rotation_z |-> [i \in 1 .. bones |-> 0], bone_count |-> bones]

\* write_bone_channel without the check of bone_index: the vector grows to
\* hold the slot.
write_bone_channelUnchecked(p, bone_index, channel, value) ==
    [p EXCEPT !.rotation_z =
        [k \in 1 .. Max(Len(p.rotation_z), bone_index + 1) |->
            IF k = bone_index + 1 THEN value[1]
            ELSE IF k <= Len(p.rotation_z) THEN p.rotation_z[k] ELSE 0]]

\* PoseBuffer::write_bone_channel: lane 0 of value goes to the slot of the
\* bone (bones are counted from 0, the sequence is indexed from 1).
write_bone_channel(p, bone_index, channel, value) ==
    IF bone_index >= p.bone_count THEN p
    ELSE [p EXCEPT !.rotation_z[bone_index + 1] = value[1]]

\* The loop of ArticulatedSkeleton::write_to_pose_buffer from joint i on.
RECURSIVE WriteJointsFrom(_, _, _)
WriteJointsFrom(joints, i, p) ==
    IF i < Len(joints) /\ i < p.bone_count
    THEN LET angle == joints[i + 1].angle
             q == from_euler(angle[1], angle[2], angle[3])
         IN  WriteJointsFrom(joints, i + 1,
                 write_bone_channel(p, i, "rotation",
                                    mm_set_ps(q.w, q.z, q.y, q.x)))
    ELSE p

\* ArticulatedSkeleton::write_to_pose_buffer
write_to_pose_buffer(s, p) == WriteJointsFrom(s.joints, 0, p)

(***************************************************************************)
(* systems/physiological_actor: PhysioBridge, PhysiologicalActor           *)
(***************************************************************************)
\* MuscleIndex (muscles are counted from 0; the sequence is indexed from 1)
TRAPEZIUS == 0
RECTUS_ABDOMINIS == 1
BICEPS == 2

PhysioBridge ==
    [ desired_joint_torques |-> <<>>, cognitive_stimuli |-> <<>>,
      muscle_activations |-> <<>>, joint_angles |-> <<>>,
      fatigue_factor |-> 0 ]

\* SpinalCord::set_emotional_modulation(fear), which the actor calls every
\* frame.  The class in spinal_circuit has no such member; this is the
\* configuration of the cord the specification describes (section 4.9,
\* step 3): the modulation of every segment.
SpinalCord_set_emotional_modulation(segments, fear) ==
    [i \in 1 .. Len(segments) |-> set_emotional_modulation(segments[i], fear)]

\* PhysiologicalActor::PhysiologicalActor(muscle_count) with GRID_SIZE =
\* grid, muscle_count > 2 (initialize_human_muscles assigns three muscles).
\* The attachment points are labels that no step reads; perf.last_frame_ms
\* is a wall-clock measurement.  Neither is kept.
MUSCLE_COUNT == 50

PhysiologicalActor(muscle_count, grid) ==
    [ muscles |-> [i \in 1 .. muscle_count |->
          IF i = TRAPEZIUS + 1 THEN Muscle(150, grid)
          ELSE IF i = RECTUS_ABDOMINIS + 1 THEN Muscle(200, grid)
          ELSE Muscle(100, grid)],
      tendons |-> [i \in 1 .. muscle_count |->
          reset_hysteresis(TendonNonlinear)],
      skeleton |-> ArticulatedSkeleton(JOINT_COUNT),
      metabolism |-> MetabolicSystem,
      spinal_cord |-> SpinalCord(muscle_count \div 2),
      mood |-> MoodDynamics,
      current_emotion |-> EmotionProfile,
      bridge |-> PhysioBridge,
      perf |-> [muscle_updates |-> 0, is_thermal_throttling |-> FALSE] ]

blend_emotions_max(base, add) ==
    [base EXCEPT
       !.primary.joy = Max(base.primary.joy, add.primary.joy),
       !.primary.sadness = Max(base.primary.sadness, add.primary.sadness),
       !.primary.anger = Max(base.primary.anger, add.primary.anger),
       !.primary.fear = Max(base.primary.fear, add.primary.fear)]

\* Step 1 of update: the loop over the stimuli from the k-th on, with the
\* emotion blended so far.
RECURSIVE AppraiseFrom(_, _, _)
AppraiseFrom(stimuli, k, current_emotion) ==
    IF k > Len(stimuli) THEN current_emotion
    ELSE LET ctx == [ delta_time |-> 0,
                      parameters |-> [ self_efficacy |-> Dec(7, 10),
                                       self_esteem |-> Dec(8, 10) ],
                      emotion |-> [mood |->
                          [stress |-> current_emotion.mood.stress]] ]
             result == appraise(stimuli[k], ctx)
         IN  AppraiseFrom(stimuli, k + 1,
                 IF result.goal_relevance > Dec(2, 10)
                 THEN blend_emotions_max(current_emotion, result.emotion)
                 ELSE current_emotion)

\* The activations apply_emotion_to_muscles passes to the two muscles
trap_activation(emotion) == FMul(emotion.primary.fear, Dec(7, 10))
ab_activation(emotion) == FMul(emotion.primary.sadness, Dec(6, 10))

apply_emotion_to_muscles(muscles, emotion, grid) ==
    [i \in 1 .. Len(muscles) |->
        IF i = TRAPEZIUS + 1
        THEN Muscle_step(muscles[i], grid, trap_activation(emotion),
                         Dec(16, 1000))
        ELSE IF i = RECTUS_ABDOMINIS + 1
        THEN Muscle_step(muscles[i], grid, ab_activation(emotion),
                         Dec(16, 1000))
        ELSE muscles[i]]

\* bridge.muscle_activations[i] as update_muscles_parallel reads it, i from
\* 0.  The vector has one entry per spinal segment; an index beyond its end
\* reads whatever lies behind the vector's storage, here the value garbage.
ActivationRead(muscle_activations, i, garbage) ==
    IF i < Len(muscle_activations) THEN muscle_activations[i + 1]
    ELSE garbage

update_muscles_parallel(muscles, muscle_activations, perf, dt, grid, garbage) ==
    [i \in 1 .. Len(muscles) |->
        LET read == ActivationRead(muscle_activations, i - 1, garbage)
        IN  IF perf.is_thermal_throttling /\ (i - 1) % 4 = 0
            THEN Muscle_step(muscles[i], grid, FMul(read, Dec(5, 10)), dt)
            ELSE Muscle_step(muscles[i], grid, read, dt)]

\* a / b truncated toward zero, b > 0
TruncDiv(a, b) == Sgn(a) * (Abs(a) \div b)

\* Muscle::get_force in newtons: the cross-bridge part is in units of
\* 2 * 10^-18 N.
ForceNewtons(force) ==
    force.hill + TruncDiv(TruncDiv(force.cross_bridge, 500 * KILO), ONE)

\* force / tendon.get_stiffness(), the stiffness in whole MPa
TendonStrain(m, t) ==
    TruncDiv(TruncDiv(ForceNewtons(Muscle_get_force(m)), get_stiffness(t)),
             ONE)

update_tendons(tendons, muscles, dt) ==
    [i \in 1 .. Len(tendons) |->
        IF i <= Len(muscles)
        THEN LET strain == TendonStrain(muscles[i], tendons[i])
                 strain_rate == FDiv(strain, dt + 1)
             IN  compute_stress(tendons[i], strain, strain_rate, dt).tendon
        ELSE tendons[i]]

RECURSIVE Accumulate(_, _)
Accumulate(values, k) ==
    IF k = 0 THEN 0 ELSE Accumulate(values, k - 1) + values[k]

\* What one call of PhysiologicalActor::update(dt, input) works on: the
\* actor's members, the arguments, the Engine configuration and recorder of
\* the calling thread, GRID_SIZE, the function-local statics frame_counter
\* and timestamp, the value a read beyond the activations yields, and the
\* metabolism.update calls made so far (none).
UpdateFrame(actor, dt, input, config, recorder, grid, counter, time, garbage) ==
    [ actor |-> actor, dt |-> dt, input |-> input, config |-> config,
      recorder |-> recorder, grid |-> grid, frame_counter |-> counter,
      timestamp |-> time, garbage |-> garbage, metabolism_updates |-> <<>> ]

\* update, step 1: current_emotion is reset and the stimuli are appraised.
UpdateAppraisal(f) ==
    [f EXCEPT !.actor.current_emotion =
        AppraiseFrom(f.input.cognitive_stimuli, 1, EmotionProfile)]

\* update, step 2: mood.update, then current_emotion.mood = mood.get_state()
UpdateMood(f) ==
    LET new_mood ==
            MoodDynamics_update(f.actor.mood, f.dt, f.actor.current_emotion)
    IN  [f EXCEPT !.actor.mood = new_mood,
                  !.actor.current_emotion.mood =
                      MoodDynamics_get_state(new_mood)]

\* update, step 3: the modulation and the step of the spinal cord
UpdateSpinalCord(f) ==
    [f EXCEPT !.actor.spinal_cord =
        SpinalCord_step(
            SpinalCord_set_emotional_modulation(
                f.actor.spinal_cord, f.actor.current_emotion.primary.fear),
            f.input.desired_joint_torques, f.dt)]

\* update, step 3: bridge.muscle_activations
UpdateActivations(f) ==
    [f EXCEPT !.actor.bridge.muscle_activations =
        get_muscle_activations(f.actor.spinal_cord)]

\* update, step 4
UpdateEmotionMuscles(f) ==
    [f EXCEPT !.actor.muscles =
        apply_emotion_to_muscles(f.actor.muscles, f.actor.current_emotion,
                                 f.grid)]

\* update, step 5
UpdateMuscles(f) ==
    [f EXCEPT
       !.actor.perf.muscle_updates = Len(f.actor.muscles),
       !.actor.muscles =
           update_muscles_parallel(
               f.actor.muscles, f.actor.bridge.muscle_activations,
               f.actor.perf, f.dt, f.grid, f.garbage)]

\* update, step 6
UpdateTendons(f) ==
    IF f.config.features.enable_hysteresis
    THEN [f EXCEPT !.actor.tendons =
             update_tendons(f.actor.tendons, f.actor.muscles, f.dt)]
    ELSE f

\* update, step 7: ++frame_counter, and the metabolism when it divides by 4
UpdateMetabolism(f) ==
    LET activations == f.actor.bridge.muscle_activations
        total_activation == Accumulate(activations, Len(activations))
        metabolic_dt == FMul(f.dt, 4 * ONE)
    IN  IF (f.frame_counter + 1) % 4 = 0
        THEN [f EXCEPT
                !.frame_counter = f.frame_counter + 1,
                !.actor.metabolism =
                    MetabolicSystem_update(f.actor.metabolism,
                                           total_activation, metabolic_dt),
                !.metabolism_updates =
                    << [ muscle_activation |-> total_activation,
                         dt |-> metabolic_dt ] >>]
        ELSE [f EXCEPT !.frame_counter = f.frame_counter + 1]

\* update, step 8
UpdateSkeleton(f) ==
    [f EXCEPT !.actor.skeleton =
        ArticulatedSkeleton_forward_dynamics(f.actor.skeleton, f.dt)]

\* update, step 9
UpdateOutput(f) ==
    [f EXCEPT
       !.actor.bridge.joint_angles = get_joint_angles(f.actor.skeleton),
       !.actor.bridge.fatigue_factor =
           get_fatigue_factor(f.actor.metabolism)]

\* update, step 10: with a recorder, timestamp += dt and the frame is recorded
UpdateRecord(f) ==
    IF f.recorder = NULL THEN f
    ELSE [f EXCEPT
            !.timestamp = f.timestamp + f.dt,
            !.recorder =
                record_frame(f.recorder,
                    [ timestamp |-> f.timestamp + f.dt,
                      emotion_vector |-> to_vector(f.actor.current_emotion),
                      metabolism_state |->
                          MetabolicSystem_get_state(f.actor.metabolism),
                      muscle_activations |->
                          f.actor.bridge.muscle_activations,
                      pose_quantized |-> <<>> ])]

\* PhysiologicalActor::update on the frame f: the steps in the order of the
\* body.  The result holds the actor, the statics and the recorder after the
\* call, and the metabolism.update calls it made.
PhysiologicalActor_update(f) ==
    UpdateRecord(UpdateOutput(UpdateSkeleton(UpdateMetabolism(
        UpdateTendons(UpdateMuscles(UpdateEmotionMuscles(
            UpdateActivations(UpdateSpinalCord(UpdateMood(
                UpdateAppraisal(f)))))))))))

\* The start of PhysiologicalActor::on_evaluate: the bridge cleared and
\* filled from ctx.parameters, a record whose fields are the keys present.
EvaluateBridge(bridge, parameters) ==
    [bridge EXCEPT
       !.desired_joint_torques =
           IF "desired_torques" \in DOMAIN parameters
           THEN <<parameters.desired_torques>> ELSE <<>>,
       !.cognitive_stimuli =
           IF "threat_distance" \in DOMAIN parameters
           THEN << Stimulus("threat",
                            FDiv(ONE, parameters.threat_distance + ONE),
                            IF "threat_urgency" \in DOMAIN parameters
                            THEN parameters.threat_urgency ELSE Dec(5, 10),
                            Dec(5, 10), Dec(5, 10)) >>
           ELSE <<>>]

\* PhysiologicalActor::write_to_pose_buffer: the skeleton's pose, and on the
\* root bone the tremor of a fatigued actor, noise being lane 0 of noise4().
PhysiologicalActor_write_to_pose_buffer(actor, p, noise) ==
    LET written == write_to_pose_buffer(actor.skeleton, p)
        shake == FMul(actor.bridge.fatigue_factor, Dec(1, 10))
    IN  IF actor.bridge.fatigue_factor > Dec(1, 100) /\ written.bone_count > 0
        THEN [written EXCEPT !.rotation_z[1] = @ + FMul(shake, noise)]
        ELSE written

(***************************************************************************)
(* The variables of all subsystems, and their constructed values           *)
(***************************************************************************)
vars ==
    <<poolVars, cordVars, tendonVars, metaVars, engineVars, actorVars,
      skeletonVars, recorderVars, fiberVars, segmentVars, defaultVars>>

InitPool ==
    /\ pool = MotorNeuronPool
    /\ poolOp = "new"
    /\ poolSteps = 0
    /\ poolAdds = 0

InitCord ==
    /\ cord = SpinalCord(SEGMENT_COUNT)
    /\ cordOp = [op |-> "new", desired_torques |-> <<>>, dt |-> 0]
    /\ cordFrames = 0
    /\ cordSustained = TRUE

InitTendon ==
    /\ tendon = TendonNonlinear
    /\ tendonOut = 0
    /\ tendonTrace = <<>>

InitMetabolism ==
    /\ metabolism = MetabolicSystem
    /\ metaUpdates = 0
    /\ metaIdle = TRUE

InitEngine ==
    /\ s_initialized = FALSE
    /\ t_config = [t \in Threads |-> Config]
    /\ t_recorder = [t \in Threads |-> NULL]
    /\ GRID_SIZE = 100
    /\ initPc = [t \in Threads |-> "idle"]
    /\ initArg = [t \in Threads |-> Config]
    /\ initCalls = 0
    /\ initPassed = 0
    /\ initWinner = NoCall
    /\ accuracyCalls = 0
    /\ engineLast = [t \in Threads |-> NoCall]
    /\ engineOp = NoCall
    /\ engineMuscle = Muscle(100, 100)
    /\ muscleSteps = 0

\* Two actors of three muscles each, constructed before any engine call.
ActorIds == {"a", "b"}

InitActors ==
    /\ actors = [id \in ActorIds |-> PhysiologicalActor(3, 100)]
    /\ frame_counter = 0
    /\ timestamp = 0
    /\ actorFrames = [id \in ActorIds |-> 0]
    /\ metabolismLog = [id \in ActorIds |-> <<>>]
    /\ actorInput = [id \in ActorIds |-> PhysioBridge]
    /\ actorPose = [id \in ActorIds |-> PoseBuffer(JOINT_COUNT)]

\* A skeleton of three joints (the spine, the shoulder and one with the
\* default capsule) and a pose buffer with one bone more.
InitSkeleton ==
    /\ skeleton = ArticulatedSkeleton(3)
    /\ pose = PoseBuffer(4)
    /\ skelOp = [op |-> "new"]
    /\ skelCalls = 0

\* The recorder as Engine::initialize leaves it: make_unique<DataRecorder>().
InitRecorder ==
    /\ dataRecorder = DataRecorder
    /\ recorded = <<>>
    /\ recorderOp = [op |-> "new"]

\* A fiber constructed with the initial grid size of the process.
InitFiber ==
    /\ huxleyFiber = HuxleyFiber(100)
    /\ fiberOp = [op |-> "new"]
    /\ fiberSteps = 0

InitSegment ==
    /\ segment = SpinalSegment
    /\ segmentOp = [op |-> "new"]
    /\ segmentCalls = 0

\* PhysiologicalActor(): muscle_count = MUSCLE_COUNT
InitDefaultActor ==
    /\ defaultActor = PhysiologicalActor(MUSCLE_COUNT, 100)
    /\ defaultInput = PhysioBridge
    /\ defaultPose = PoseBuffer(JOINT_COUNT)
    /\ defaultFrames = 0

Init ==
    /\ InitPool /\ InitCord /\ InitTendon /\ InitMetabolism
    /\ InitEngine /\ InitActors /\ InitSkeleton /\ InitRecorder
    /\ InitFiber /\ InitSegment /\ InitDefaultActor

(***************************************************************************)
(* Specification of one MotorNeuronPool used through its public interface  *)
(***************************************************************************)
\* Time steps offered to MotorNeuronPool::step: the 16 ms frame, and a step
\* longer than the refractory period.
TimeSteps == {Dec(16, 1000), Dec(1, 4)}
\* 3/2 is clamped to 1 by set_central_drive.
PoolDrives == {0, Dec(3, 2)}
PoolFeedbacks == {-2 * ONE}
\* above the Ib threshold of 0.8
PoolForces == {ONE}

PoolSetCentralDrive(drive) ==
    /\ pool' = set_central_drive(pool, drive)
    /\ poolOp' = "set_central_drive"
    /\ UNCHANGED <<poolSteps, poolAdds, exceptPool>>

PoolSetSpindleFeedback(feedback) ==
    /\ pool' = set_spindle_feedback(pool, feedback)
    /\ poolOp' = "set_spindle_feedback"
    /\ UNCHANGED <<poolSteps, poolAdds, exceptPool>>

PoolSetTendonForce(force) ==
    /\ pool' = set_tendon_force(pool, force)
    /\ poolOp' = "set_tendon_force"
    /\ UNCHANGED <<poolSteps, poolAdds, exceptPool>>

PoolUpdateIb ==
    /\ pool' = update_ib_inhibition(pool)
    /\ poolOp' = "update_ib_inhibition"
    /\ UNCHANGED <<poolSteps, poolAdds, exceptPool>>

PoolAddRenshaw(inhibition) ==
    /\ poolAdds < MaxRenshawAdds
    /\ pool' = add_renshaw_inhibition(pool, inhibition)
    /\ poolOp' = "add_renshaw_inhibition"
    /\ poolAdds' = poolAdds + 1
    /\ UNCHANGED <<poolSteps, exceptPool>>

PoolStep(dt) ==
    /\ poolSteps < MaxPoolSteps
    /\ pool' = MotorNeuronPool_step(pool, dt)
    /\ poolOp' = "step"
    /\ poolSteps' = poolSteps + 1
    /\ UNCHANGED <<poolAdds, exceptPool>>

NextPool ==
    \/ \E drive \in PoolDrives : PoolSetCentralDrive(drive)
    \/ \E feedback \in PoolFeedbacks : PoolSetSpindleFeedback(feedback)
    \/ \E force \in PoolForces : PoolSetTendonForce(force)
    \/ PoolUpdateIb
    \/ PoolAddRenshaw(ONE)
    \/ \E dt \in TimeSteps : PoolStep(dt)

SpecPool == Init /\ [][NextPool]_vars

(***************************************************************************)
(* Specification of a SpinalCord of SEGMENT_COUNT segments                 *)
(***************************************************************************)
AllOnes == [i \in 1 .. SEGMENT_COUNT |-> ONE]
MixedTorques ==
    [i \in 1 .. SEGMENT_COUNT |->
        IF i = 1 THEN -ONE ELSE IF i = 2 THEN 0 ELSE Dec(i, 10)]
\* The vector PhysiologicalActor::on_evaluate builds has one entry.
TorqueVectors == {AllOnes, MixedTorques, <<ONE>>}
CordTimeSteps == {Dec(16, 1000), Dec(1, 4)}

SpinalCordStep(desired_torques, dt) ==
    /\ cordFrames < MaxCordFrames
    /\ cord' = SpinalCord_step(cord, desired_torques, dt)
    /\ cordOp' = [op |-> "step", desired_torques |-> desired_torques,
                  dt |-> dt]
    /\ cordFrames' = cordFrames + 1
    /\ cordSustained' = (cordSustained /\ desired_torques = AllOnes)
    /\ UNCHANGED exceptCord

NextCord ==
    \E desired_torques \in TorqueVectors, dt \in CordTimeSteps :
        SpinalCordStep(desired_torques, dt)

SpecCord == Init /\ [][NextCord]_vars


(***************************************************************************)
(* Specification of one TendonNonlinear                                    *)
(***************************************************************************)
\* The ramp of scenario 5 in RampHalfSteps equal steps up and as many down:
\* the strain supplied by call k, and the time step that makes it last 1 s.
RampPeak == Dec(5, 100)
RampStep == RampPeak \div RampHalfSteps
RampDt == ONE \div (2 * RampHalfSteps)
RampStrain(k) ==
    IF k <= RampHalfSteps THEN k * RampStep
    ELSE (2 * RampHalfSteps - k) * RampStep

\* Strains offered to a call: one ramp step up or down from the last strain,
\* and a strain beyond epsilon_max.
TendonStrains ==
    {tendon.last_strain + RampStep, tendon.last_strain - RampStep, Dec(1, 10)}

\* The signed rate of change of the supplied strain.
RateOfChange(strain, dt) == FDiv(strain - tendon.last_strain, dt)

\* Strain rates offered to a call: the rate of change of the supplied strain,
\* and a rate that does not depend on it (PhysiologicalActor::update_tendons
\* passes strain / (dt + 1e-6), whatever the last strain was).
TendonRates(strain, dt) == {RateOfChange(strain, dt), Dec(1, 10)}

TendonOps ==
    Len(SelectSeq(tendonTrace, LAMBDA e : e.op = "compute_stress"))

TendonComputeStress(strain, strain_rate, dt) ==
    /\ TendonOps < 2 * RampHalfSteps
    /\ LET r == compute_stress(tendon, strain, strain_rate, dt) IN
         /\ tendon' = r.tendon
         /\ tendonOut' = r.stress
         /\ tendonTrace' = Append(tendonTrace,
               [op |-> "compute_stress", strain |-> strain,
                strain_rate |-> strain_rate, dt |-> dt,
                loss |-> r.tendon.hysteresis_loss])
    /\ UNCHANGED exceptTendon

TendonResetHysteresis ==
    /\ tendon.hysteresis_loss # 0
    /\ tendon' = reset_hysteresis(tendon)
    /\ tendonTrace' = Append(tendonTrace,
          [op |-> "reset_hysteresis", strain |-> 0, strain_rate |-> 0,
           dt |-> 0, loss |-> 0])
    /\ UNCHANGED <<tendonOut, exceptTendon>>

\* A second set_linear_mode changes nothing; the model offers the first.
TendonSetLinearMode ==
    /\ tendon.viscosity # 0
    /\ tendon' = set_linear_mode(tendon)
    /\ tendonTrace' = Append(tendonTrace,
          [op |-> "set_linear_mode", strain |-> 0, strain_rate |-> 0,
           dt |-> 0, loss |-> tendon.hysteresis_loss])
    /\ UNCHANGED <<tendonOut, exceptTendon>>

NextTendon ==
    \/ \E strain \in TendonStrains :
         \E strain_rate \in TendonRates(strain, RampDt) :
            TendonComputeStress(strain, strain_rate, RampDt)
    \/ TendonResetHysteresis
    \/ TendonSetLinearMode

SpecTendon == Init /\ [][NextTendon]_vars

(***************************************************************************)
(* Specification of one MetabolicSystem                                    *)
(***************************************************************************)
\* Activations offered to update: idle, a net activation of one segment (the
\* cord's activations are firing rates in Hz), and a negative sum (extensor
\* pools firing).
MetabolicActivations == {0, 30 * ONE, -30 * ONE}
\* Four 16 ms frames, as the actor passes, and a longer step.
MetabolicTimeSteps == {Dec(64, 1000), 2 * ONE}

MetabolismUpdate(muscle_activation, dt) ==
    /\ metaUpdates < MaxMetabolicUpdates
    /\ metabolism' = MetabolicSystem_update(metabolism, muscle_activation, dt)
    /\ metaUpdates' = metaUpdates + 1
    /\ metaIdle' = (metaIdle /\ muscle_activation = 0)
    /\ UNCHANGED exceptMetabolism

NextMetabolism ==
    \E muscle_activation \in MetabolicActivations, dt \in MetabolicTimeSteps :
        MetabolismUpdate(muscle_activation, dt)

SpecMetabolism == Init /\ [][NextMetabolism]_vars

(***************************************************************************)
(* Specification of the engine facade and one muscle                       *)
(*                                                                         *)
(* Engine::initialize is not atomic: the exchange on the latch is one      *)
(* step, and the writes of t_config, t_recorder and GRID_SIZE that follow  *)
(* it are steps of their own, which other threads' calls interleave with.  *)
(* Muscle::step is taken as one step.                                      *)
(***************************************************************************)
\* Configurations offered to initialize: the smallest and the largest tier.
ConfigsOffered ==
    { [Config EXCEPT !.accuracy = a, !.features.enable_hysteresis = h] :
        a \in {"Realtime", "Extreme"}, h \in {TRUE} }
EngineActivations == {0, ONE}
EngineTimeSteps == {Dec(16, 1000)}

\* Engine::initialize, line 76: the latch.  A call that reads true returns.
InitializeCall(t, cfg) ==
    /\ initPc[t] = "idle"
    /\ initCalls < MaxInitializeCalls
    /\ initCalls' = initCalls + 1
    /\ LET latch == LatchExchange(s_initialized)
       IN  /\ s_initialized' = latch.new
           /\ IF latch.old
              THEN /\ engineLast' = [engineLast EXCEPT ![t] =
                          [op |-> "initialize", cfg |-> cfg, passed |-> FALSE]]
                   /\ UNCHANGED <<initPc, initArg, initPassed, initWinner>>
              ELSE /\ initPc' = [initPc EXCEPT ![t] = "config"]
                   /\ initArg' = [initArg EXCEPT ![t] = cfg]
                   /\ initPassed' = initPassed + 1
                   /\ initWinner' = IF initPassed = 0
                                    THEN [op |-> "initialize", thread |-> t,
                                          cfg |-> cfg]
                                    ELSE initWinner
                   /\ UNCHANGED engineLast
           /\ engineOp' = [op |-> "initialize", thread |-> t,
                           accuracy |-> cfg.accuracy]
    /\ UNCHANGED <<t_config, t_recorder, GRID_SIZE, accuracyCalls,
                   engineMuscle, muscleSteps, exceptEngine>>

\* Engine::initialize, line 78
InitializeConfig(t) ==
    /\ initPc[t] = "config"
    /\ t_config' = [t_config EXCEPT ![t] = initArg[t]]
    /\ initPc' = [initPc EXCEPT ![t] = "recorder"]
    /\ UNCHANGED <<s_initialized, t_recorder, GRID_SIZE, initArg, initCalls,
                   initPassed, initWinner, accuracyCalls, engineLast,
                   engineOp, engineMuscle, muscleSteps, exceptEngine>>

\* Engine::initialize, line 79
InitializeRecorder(t) ==
    /\ initPc[t] = "recorder"
    /\ t_recorder' = [t_recorder EXCEPT ![t] = DataRecorder]
    /\ initPc' = [initPc EXCEPT ![t] = "grid"]
    /\ UNCHANGED <<s_initialized, t_config, GRID_SIZE, initArg, initCalls,
                   initPassed, initWinner, accuracyCalls, engineLast,
                   engineOp, engineMuscle, muscleSteps, exceptEngine>>

\* Engine::initialize, lines 82-87: the grid size, and the return
InitializeGrid(t) ==
    /\ initPc[t] = "grid"
    /\ GRID_SIZE' = set_global_grid_size(TierGridSize(initArg[t].accuracy))
    /\ initPc' = [initPc EXCEPT ![t] = "idle"]
    /\ engineLast' = [engineLast EXCEPT ![t] =
           [op |-> "initialize", cfg |-> initArg[t], passed |-> TRUE]]
    /\ UNCHANGED <<s_initialized, t_config, t_recorder, initArg, initCalls,
                   initPassed, initWinner, accuracyCalls, engineOp,
                   engineMuscle, muscleSteps, exceptEngine>>

\* Engine::set_accuracy
SetAccuracy(t, acc) ==
    /\ initPc[t] = "idle"
    /\ accuracyCalls < MaxAccuracyCalls
    /\ accuracyCalls' = accuracyCalls + 1
    /\ t_config' = [t_config EXCEPT ![t].accuracy = acc]
    /\ GRID_SIZE' = reconfigure_all(GRID_SIZE)
    /\ engineLast' = [engineLast EXCEPT ![t] =
           [op |-> "set_accuracy", accuracy |-> acc]]
    /\ engineOp' = [op |-> "set_accuracy", thread |-> t, accuracy |-> acc]
    /\ UNCHANGED <<s_initialized, t_recorder, initPc, initArg, initCalls,
                   initPassed, initWinner, engineMuscle, muscleSteps,
                   exceptEngine>>

\* Muscle::step on the muscle of the process
EngineMuscleStep(activation, dt) ==
    /\ muscleSteps < MaxMuscleSteps
    /\ muscleSteps' = muscleSteps + 1
    /\ engineMuscle' = Muscle_step(engineMuscle, GRID_SIZE, activation, dt)
    /\ engineOp' = [op |-> "Muscle::step", after |-> engineOp]
    /\ UNCHANGED <<engineState, initPc, initArg, initCalls, initPassed,
                   initWinner, accuracyCalls, engineLast, exceptEngine>>

\* The calls of the engine facade alone, from any thread in any order.
NextLatch ==
    \/ \E t \in Threads, cfg \in ConfigsOffered : InitializeCall(t, cfg)
    \/ \E t \in Threads : InitializeConfig(t)
    \/ \E t \in Threads : InitializeRecorder(t)
    \/ \E t \in Threads : InitializeGrid(t)
    \/ \E t \in Threads, acc \in Accuracy : SetAccuracy(t, acc)

SpecLatch == Init /\ [][NextLatch]_vars

\* The engine facade together with the steps of a muscle.
NextEngine ==
    \/ NextLatch
    \/ \E activation \in EngineActivations, dt \in EngineTimeSteps :
           EngineMuscleStep(activation, dt)

SpecEngine == Init /\ [][NextEngine]_vars

(***************************************************************************)
(* Specification of the actors of one thread                               *)
(*                                                                         *)
(* The actors are updated on the main thread, in any order, once the       *)
(* engine has been initialized on that thread.                             *)
(***************************************************************************)
ActorThread == "main"

\* The configuration the engine is initialized with: the Realtime tier,
\* hysteresis off.
ActorConfigs ==
    {[Config EXCEPT !.accuracy = "Realtime",
                    !.features.enable_hysteresis = FALSE]}

ThreatStimulus == Stimulus("threat", ONE, Dec(9, 10), Dec(5, 10), Dec(5, 10))
LossStimulus == Stimulus("loss", Dec(8, 10), Dec(5, 10), Dec(5, 10), Dec(5, 10))

\* The inputs of a frame: nothing at all, or a desired torque for the one
\* spinal segment together with a threat and a loss.
ActorInputs ==
    { [PhysioBridge EXCEPT !.desired_joint_torques = <<>>,
                           !.cognitive_stimuli = <<>>],
      [PhysioBridge EXCEPT !.desired_joint_torques = <<ONE>>,
                           !.cognitive_stimuli =
                               <<ThreatStimulus, LossStimulus>>] }
ActorTimeSteps == {Dec(16, 1000)}
\* Values an activation read beyond the end of the vector may yield.
GarbageFloats == {0, ONE}

ActorBootstrap(cfg) ==
    /\ frame_counter = 0
    /\ ~s_initialized
    /\ InitializeCall(ActorThread, cfg)

ActorUpdate(id, dt, input, garbage) ==
    /\ s_initialized
    /\ initPc[ActorThread] = "idle"
    /\ frame_counter < MaxActorFrames
    /\ \E after \in {PhysiologicalActor_update(
                        UpdateFrame(actors[id], dt, input,
                                    get_config(ActorThread),
                                    get_recorder(ActorThread), GRID_SIZE,
                                    frame_counter, timestamp, garbage))} :
         \E frame \in {actorFrames[id] + 1} :
           /\ actors' = [actors EXCEPT ![id] = after.actor]
           /\ frame_counter' = after.frame_counter
           /\ timestamp' = after.timestamp
           /\ t_recorder' = [t_recorder EXCEPT ![ActorThread] = after.recorder]
           /\ actorFrames' = [actorFrames EXCEPT ![id] = frame]
           /\ actorInput' = [actorInput EXCEPT ![id] = input]
           /\ metabolismLog' = [metabolismLog EXCEPT ![id] =
                  metabolismLog[id]
                    \o [k \in 1 .. Len(after.metabolism_updates) |->
                           [ frame |-> frame, frame_dt |-> dt,
                             muscle_activation |->
                                 after.metabolism_updates[k].muscle_activation,
                             dt |-> after.metabolism_updates[k].dt ]]]
    /\ UNCHANGED <<s_initialized, t_config, GRID_SIZE, engineHistory,
                   engineMuscle, muscleSteps, actorPose, exceptActor>>

NextActor ==
    \/ \E cfg \in ActorConfigs : ActorBootstrap(cfg)
    \/ InitializeConfig(ActorThread)
    \/ InitializeRecorder(ActorThread)
    \/ InitializeGrid(ActorThread)
    \/ \E id \in ActorIds, dt \in ActorTimeSteps, input \in ActorInputs,
          garbage \in GarbageFloats :
           ActorUpdate(id, dt, input, garbage)

SpecActor == Init /\ [][NextActor]_vars

\* One actor driven with desired torques of both signs.
SignedTorqueInputs ==
    { [PhysioBridge EXCEPT !.desired_joint_torques = <<>>,
                           !.cognitive_stimuli = <<>>],
      [PhysioBridge EXCEPT !.desired_joint_torques = <<ONE>>,
                           !.cognitive_stimuli = <<>>],
      [PhysioBridge EXCEPT !.desired_joint_torques = <<-ONE>>,
                           !.cognitive_stimuli = <<>>] }

NextActorTorques ==
    \/ \E cfg \in ActorConfigs : ActorBootstrap(cfg)
    \/ InitializeConfig(ActorThread)
    \/ InitializeRecorder(ActorThread)
    \/ InitializeGrid(ActorThread)
    \/ \E dt \in ActorTimeSteps, input \in SignedTorqueInputs,
          garbage \in GarbageFloats :
           ActorUpdate("a", dt, input, garbage)

SpecActorTorques == Init /\ [][NextActorTorques]_vars

(***************************************************************************)
(* Specification of the actors evaluated as animation nodes                *)
(*                                                                         *)
(* As above, with on_evaluate in the place of update: the input is built   *)
(* from the parameters of the animation context.  The actors have no       *)
(* children.                                                               *)
(***************************************************************************)
\* The parameters of a context: one the actor does not read, a threat at
\* distance 0.25 with and without its urgency, and a torque request.
ContextParameters ==
    { [playback_speed |-> ONE],
      [threat_distance |-> Dec(25, 100), threat_urgency |-> Dec(9, 10)],
      [threat_distance |-> Dec(25, 100)],
      [threat_distance |-> 0, threat_urgency |-> Dec(2, 10)],
      [threat_distance |-> 0, threat_urgency |-> Dec(1, 10)],
      [desired_torques |-> Dec(8, 10)] }
EvaluateTimeSteps == {Dec(16, 1000)}
\* Values of rand() / RAND_MAX
NoiseFloats == {0, ONE}

ActorEvaluate(id, delta_time, parameters, garbage) ==
    /\ s_initialized
    /\ initPc[ActorThread] = "idle"
    /\ frame_counter < MaxEvaluateFrames
    /\ \E bridge \in {EvaluateBridge(actors[id].bridge, parameters)} :
       \E after \in {PhysiologicalActor_update(
                        UpdateFrame([actors[id] EXCEPT !.bridge = bridge],
                                    delta_time, bridge,
                                    get_config(ActorThread),
                                    get_recorder(ActorThread), GRID_SIZE,
                                    frame_counter, timestamp, garbage))} :
       \E noise \in (IF after.actor.bridge.fatigue_factor > Dec(1, 100)
                     THEN NoiseFloats ELSE {0}) :
       \E frame \in {actorFrames[id] + 1} :
           /\ actors' = [actors EXCEPT ![id] = after.actor]
           /\ frame_counter' = after.frame_counter
           /\ timestamp' = after.timestamp
           /\ t_recorder' = [t_recorder EXCEPT ![ActorThread] = after.recorder]
           /\ actorFrames' = [actorFrames EXCEPT ![id] = frame]
           /\ actorInput' = [actorInput EXCEPT ![id] = bridge]
           /\ actorPose' = [actorPose EXCEPT ![id] =
                  PhysiologicalActor_write_to_pose_buffer(
                      after.actor, actorPose[id], noise)]
           /\ metabolismLog' = [metabolismLog EXCEPT ![id] =
                  metabolismLog[id]
                    \o [k \in 1 .. Len(after.metabolism_updates) |->
                           [ frame |-> frame, frame_dt |-> delta_time,
                             muscle_activation |->
                                 after.metabolism_updates[k].muscle_activation,
                             dt |-> after.metabolism_updates[k].dt ]]]
    /\ UNCHANGED <<s_initialized, t_config, GRID_SIZE, engineHistory,
                   engineMuscle, muscleSteps, exceptActor>>

NextEvaluate ==
    \/ \E cfg \in ActorConfigs : ActorBootstrap(cfg)
    \/ InitializeConfig(ActorThread)
    \/ InitializeRecorder(ActorThread)
    \/ InitializeGrid(ActorThread)
    \/ \E id \in ActorIds, delta_time \in EvaluateTimeSteps,
          parameters \in ContextParameters, garbage \in GarbageFloats :
           ActorEvaluate(id, delta_time, parameters, garbage)

SpecEvaluate == Init /\ [][NextEvaluate]_vars

(***************************************************************************)
(* Specification of a default-constructed actor evaluated with torque       *)
(* requests                                                                 *)
(***************************************************************************)
MaxDefaultFrames == 3

TorqueParameters ==
    { [playback_speed |-> ONE],
      [desired_torques |-> Dec(8, 10)],
      [desired_torques |-> -Dec(5, 10)],
      [desired_torques |-> Dec(8, 10), threat_distance |-> Dec(25, 100),
       threat_urgency |-> Dec(9, 10)] }
DefaultTimeSteps == {Dec(16, 1000), Dec(33, 1000)}

DefaultActorEvaluate(delta_time, parameters, garbage) ==
    /\ s_initialized
    /\ initPc[ActorThread] = "idle"
    /\ defaultFrames < MaxDefaultFrames
    /\ \E bridge \in {EvaluateBridge(defaultActor.bridge, parameters)} :
       \E after \in {PhysiologicalActor_update(
                        UpdateFrame([defaultActor EXCEPT !.bridge = bridge],
                                    delta_time, bridge,
                                    get_config(ActorThread),
                                    get_recorder(ActorThread), GRID_SIZE,
                                    frame_counter, timestamp, garbage))} :
       \E noise \in (IF after.actor.bridge.fatigue_factor > Dec(1, 100)
                     THEN NoiseFloats ELSE {0}) :
           /\ defaultActor' = after.actor
           /\ frame_counter' = after.frame_counter
           /\ timestamp' = after.timestamp
           /\ t_recorder' = [t_recorder EXCEPT ![ActorThread] = after.recorder]
           /\ defaultFrames' = defaultFrames + 1
           /\ defaultInput' = bridge
           /\ defaultPose' =
                  PhysiologicalActor_write_to_pose_buffer(
                      after.actor, defaultPose, noise)
    /\ UNCHANGED <<s_initialized, t_config, GRID_SIZE, engineHistory,
                   engineMuscle, muscleSteps, actors, actorFrames,
                   metabolismLog, actorInput, actorPose, exceptDefault>>

NextDefaultActor ==
    \/ \E cfg \in ActorConfigs : ActorBootstrap(cfg)
    \/ InitializeConfig(ActorThread)
    \/ InitializeRecorder(ActorThread)
    \/ InitializeGrid(ActorThread)
    \/ \E delta_time \in DefaultTimeSteps, parameters \in TorqueParameters,
          garbage \in GarbageFloats :
           DefaultActorEvaluate(delta_time, parameters, garbage)

SpecDefaultActor == Init /\ [][NextDefaultActor]_vars

(***************************************************************************)
(* Specification of a skeleton and a pose buffer                           *)
(*                                                                         *)
(* The joints are driven by the two calls a forward pass makes on each of  *)
(* them, in any order and on any joint; the pose buffer is written by the  *)
(* skeleton and, slot by slot, by its other users.                         *)
(***************************************************************************)
JointIds == 1 .. 3
\* A muscle torque with the external force that comes with it.
JointLoads ==
    { [muscle_torque |-> <<50 * ONE, -50 * ONE, 0>>, external_force |-> Vec3],
      [muscle_torque |-> <<-50 * ONE, 50 * ONE, ONE>>,
       external_force |-> <<10 * ONE, 0, 0>>] }
\* The 16 ms frame, and a step long enough to carry a joint past its limits.
JointTimeSteps == {Dec(16, 1000), Dec(5, 10)}
\* Bone indices offered to write_bone_channel; the last is beyond every
\* buffer.
BoneIndices == {1, 3, 5}
BoneValues == {<<Dec(5, 10), 0, 0, ONE>>}
\* The size of a buffer that replaces the first: fewer bones than joints.
BufferSizes == {2}

JointComputeTorque(i, load, dt) ==
    /\ skelCalls < MaxSkeletonCalls
    /\ skeleton' = [skeleton EXCEPT !.joints[i] =
           BallJoint_compute_torque(skeleton.joints[i], load.muscle_torque,
                                    load.external_force, skeleton.lever_arm,
                                    dt)]
    /\ skelOp' = [op |-> "compute_torque", joint |-> i]
    /\ skelCalls' = skelCalls + 1
    /\ UNCHANGED <<pose, exceptSkeleton>>

JointForwardDynamics(i, dt) ==
    /\ skelCalls < MaxSkeletonCalls
    /\ skeleton' = [skeleton EXCEPT !.joints[i] =
           BallJoint_forward_dynamics(skeleton.joints[i],
                                      skeleton.inertia[i], dt)]
    /\ skelOp' = [op |-> "forward_dynamics", joint |-> i]
    /\ skelCalls' = skelCalls + 1
    /\ UNCHANGED <<pose, exceptSkeleton>>

PoseNew(bones) ==
    /\ skelCalls < MaxSkeletonCalls
    /\ pose' = PoseBuffer(bones)
    /\ skelOp' = [op |-> "PoseBuffer", bones |-> bones]
    /\ skelCalls' = skelCalls + 1
    /\ UNCHANGED <<skeleton, exceptSkeleton>>

PoseWriteBone(bone_index, value) ==
    /\ skelCalls < MaxSkeletonCalls
    /\ pose' = write_bone_channel(pose, bone_index, "rotation", value)
    /\ skelOp' = [op |-> "write_bone_channel", bone_index |-> bone_index]
    /\ skelCalls' = skelCalls + 1
    /\ UNCHANGED <<skeleton, exceptSkeleton>>

SkeletonWritePose ==
    /\ skelCalls < MaxSkeletonCalls
    /\ pose' = write_to_pose_buffer(skeleton, pose)
    /\ skelOp' = [op |-> "write_to_pose_buffer"]
    /\ skelCalls' = skelCalls + 1
    /\ UNCHANGED <<skeleton, exceptSkeleton>>

NextSkeleton ==
    \/ \E i \in JointIds, load \in JointLoads :
           JointComputeTorque(i, load, Dec(16, 1000))
    \/ \E i \in JointIds, dt \in JointTimeSteps : JointForwardDynamics(i, dt)
    \/ \E bones \in BufferSizes : PoseNew(bones)
    \/ \E bone_index \in BoneIndices, value \in BoneValues :
           PoseWriteBone(bone_index, value)
    \/ SkeletonWritePose

SpecSkeleton == Init /\ [][NextSkeleton]_vars

(***************************************************************************)
(* Specification of one DataRecorder from construction to teardown          *)
(***************************************************************************)
MaxRecordedFrames == 3

\* The emotion vectors of the recorded samples: 30 equal entries.
RecorderLevels == {0, Dec(5, 10), ONE}

RecorderSample(time, level) ==
    [ timestamp |-> time,
      emotion_vector |-> [i \in 1 .. 30 |-> level],
      metabolism_state |-> MetabolicSystem_get_state(MetabolicSystem),
      muscle_activations |-> <<>>,
      pose_quantized |-> <<>> ]

RecorderAlive == recorderOp.op # "teardown"

RecorderStartSession(created) ==
    /\ RecorderAlive
    /\ dataRecorder.file_handle < 0
    /\ recorderOp.op # "start_session"
    /\ dataRecorder' = start_session(dataRecorder, created)
    /\ recorderOp' = [op |-> "start_session", created |-> created]
    /\ UNCHANGED <<recorded, exceptRecorder>>

RecorderRecordFrame(level) ==
    /\ RecorderAlive
    /\ Len(recorded) < MaxRecordedFrames
    /\ \E sample \in {RecorderSample(Len(recorded) + 1, level)} :
           /\ dataRecorder' = record_frame(dataRecorder, sample)
           /\ recorded' = Append(recorded, sample)
    /\ recorderOp' = [op |-> "record_frame"]
    /\ UNCHANGED exceptRecorder

RecorderTeardown ==
    /\ RecorderAlive
    /\ dataRecorder' = DataRecorder_teardown(dataRecorder)
    /\ recorderOp' = [op |-> "teardown"]
    /\ UNCHANGED <<recorded, exceptRecorder>>

NextRecorder ==
    \/ \E created \in BOOLEAN : RecorderStartSession(created)
    \/ \E level \in RecorderLevels : RecorderRecordFrame(level)
    \/ RecorderTeardown

SpecRecorder == Init /\ [][NextRecorder]_vars

(***************************************************************************)
(* Specification of one HuxleyFiber while the grid size of the process      *)
(* changes between its steps                                                *)
(***************************************************************************)
MaxFiberSteps == 3

\* The sizes given to Muscle::set_global_grid_size.
FiberGridSizes == {4, 10}

\* The arguments of the steps: a drive that saturates the bins, one that
\* empties them, a moderate one with a shortening velocity and a negative
\* activation with a lengthening velocity.
FiberDrives ==
    { [activation |-> Dec(12, 10), velocity |-> 0, dt |-> Dec(5, 10)],
      [activation |-> 0, velocity |-> 0, dt |-> Dec(5, 10)],
      [activation |-> Dec(5, 10), velocity |-> 80 * ONE,
       dt |-> Dec(16, 1000)],
      [activation |-> -ONE, velocity |-> -(1250 * ONE),
       dt |-> Dec(16, 1000)] }

FiberSetGridSize(size) ==
    /\ size # GRID_SIZE
    /\ GRID_SIZE' = set_global_grid_size(size)
    /\ fiberOp' = [op |-> "set_global_grid_size", size |-> size]
    /\ UNCHANGED <<s_initialized, t_config, t_recorder, engineHistory,
                   engineMuscle, muscleSteps, huxleyFiber, fiberSteps,
                   exceptFiber>>

FiberStep(drive) ==
    /\ fiberSteps < MaxFiberSteps
    /\ fiberSteps' = fiberSteps + 1
    /\ huxleyFiber' =
           HuxleyFiber_step(huxleyFiber, GRID_SIZE, drive.activation,
                            Dec(3, 10), drive.velocity, drive.dt)
    /\ fiberOp' = [op |-> "step", drive |-> drive, before |-> huxleyFiber.n]
    /\ UNCHANGED <<engineVars, exceptFiber>>

NextFiber ==
    \/ \E size \in FiberGridSizes : FiberSetGridSize(size)
    \/ \E drive \in FiberDrives : FiberStep(drive)

SpecFiber == Init /\ [][NextFiber]_vars

(***************************************************************************)
(* Specification of one SpinalSegment used through its public interface     *)
(***************************************************************************)
MaxSegmentCalls == 3

FearLevels == {0, Dec(5, 10), ONE}
SegmentTorques == {0, ONE}
SegmentAngles == {0, Dec(1, 100), -Dec(1, 100)}
SegmentTimeSteps == {Dec(16, 1000)}

SegmentSetEmotionalModulation(fear) ==
    /\ segmentCalls < MaxSegmentCalls
    /\ segmentCalls' = segmentCalls + 1
    /\ segment' = set_emotional_modulation(segment, fear)
    /\ segmentOp' = [op |-> "set_emotional_modulation", fear |-> fear]
    /\ UNCHANGED exceptSegment

SegmentStep(desired_torque, joint_angle, dt) ==
    /\ segmentCalls < MaxSegmentCalls
    /\ segmentCalls' = segmentCalls + 1
    /\ segment' = SpinalSegment_step(segment, desired_torque, joint_angle, 0,
                                     dt)
    /\ segmentOp' = [op |-> "step", desired_torque |-> desired_torque,
                     joint_angle |-> joint_angle, joint_velocity |-> 0,
                     dt |-> dt]
    /\ UNCHANGED exceptSegment

NextSegment ==
    \/ \E fear \in FearLevels : SegmentSetEmotionalModulation(fear)
    \/ \E desired_torque \in SegmentTorques, joint_angle \in SegmentAngles,
          dt \in SegmentTimeSteps :
           SegmentStep(desired_torque, joint_angle, dt)

SpecSegment == Init /\ [][NextSegment]_vars

(***************************************************************************)
(* Claims about the motor-neuron pool and the spinal cord                  *)
(***************************************************************************)
Refractory(n) == n.after_hyperpolarization > 0

\* C1 as stated: in every state, every neuron whose after-hyperpolarization
\* timer is > 0 has firing_rate = 0.
C1_SilentWhileRefractory ==
    \A i \in NeuronIds : Refractory(pool.neurons[i]) =>
        pool.neurons[i].firing_rate = 0

\* C1 amended: a MotorNeuronPool::step leaves firing_rate = 0 in every
\* neuron whose timer was > 0 when the step began, and a neuron whose
\* firing_rate is not 0 after a step is one that fired in that step (its
\* timer has just been set to 200 ms).
C1_SilentAfterRefractoryStep ==
    [][poolOp' = "step" =>
          \A i \in NeuronIds :
             /\ Refractory(pool.neurons[i]) => pool'.neurons[i].firing_rate = 0
             /\ pool'.neurons[i].firing_rate # 0 =>
                   /\ ~Refractory(pool.neurons[i])
                   /\ pool'.neurons[i].after_hyperpolarization = AHP_DURATION
      ]_vars

\* C1 witness: after a step, a neuron that fired in an earlier step is still
\* refractory (its timer has been counted down) and silent, while the pool
\* is driven above its threshold.
C1_Witness ==
    /\ poolOp = "step"
    /\ \E i \in NeuronIds :
          /\ pool.neurons[i].after_hyperpolarization > 0
          /\ pool.neurons[i].after_hyperpolarization < AHP_DURATION
          /\ pool.neurons[i].firing_rate = 0
          /\ total_drive(pool) > recruitment_threshold[i]

MismatchedCall(op) ==
    op.op = "step" /\ Len(op.desired_torques) # SEGMENT_COUNT

\* C6: a SpinalCord::step whose vector length differs from the segment count
\* changes no field of any pool of any segment, and get_muscle_activations
\* returns what it returned before.
C6_MismatchIsNoOp ==
    [][MismatchedCall(cordOp') =>
          /\ cord' = cord
          /\ get_muscle_activations(cord') = get_muscle_activations(cord)
      ]_vars

\* C6 witness: a mismatched call made on a cord whose pools are active.
C6_Witness ==
    /\ MismatchedCall(cordOp)
    /\ \E i \in 1 .. SEGMENT_COUNT : get_net_activation(cord[i]) # 0
    /\ \E i \in 1 .. SEGMENT_COUNT : cord[i].flexor.central_drive > 0

\* C8: with [1,1,1,1,1] applied on every frame from the initial state, every
\* segment's net activation is > 0 after every frame.
C8_SustainedTorqueKeepsActivation ==
    (cordSustained /\ cordFrames >= 1) =>
        \A i \in 1 .. SEGMENT_COUNT : get_net_activation(cord[i]) > 0

\* The Renshaw term a pool has in a step that finds the other pool of its
\* segment as before: 0.3 times that pool's average firing rate.
RenshawOfPreviousStep(after, other) ==
    after.renshaw_inhibition
        = FMul(get_average_firing_rate(other), Dec(3, 10))

\* C18: in every SpinalSegment::step the Renshaw term of each pool is 0.3
\* times the other pool's average firing rate of the previous step alone,
\* nothing being carried over from earlier steps, and so it is at most
\* 0.3 * 200.
C18_RenshawOfPreviousStepOnly ==
    [][(cordFrames' = cordFrames + 1 /\ ~MismatchedCall(cordOp')) =>
          \A i \in 1 .. SEGMENT_COUNT :
              /\ RenshawOfPreviousStep(cord'[i].flexor, cord[i].extensor)
              /\ RenshawOfPreviousStep(cord'[i].extensor, cord[i].flexor)
              /\ cord'[i].flexor.renshaw_inhibition <= 60 * ONE
              /\ cord'[i].extensor.renshaw_inhibition <= 60 * ONE
      ]_vars

\* The spindle signal of a SpinalSegment::step call: 100 times the distance
\* of the joint angle from the setpoint plus 5 times the joint velocity.
SpindleSignal(seg, call) ==
    FMul(call.joint_angle - seg.flexor.setpoint, 100 * ONE)
        + FMul(call.joint_velocity, 5 * ONE)

GammaGain(fear) == ONE + FMul(fear, Dec(5, 10))

\* C19: in a frame, set_emotional_modulation(fear) then step, the pools are
\* stepped with the spindle signal s of the step multiplied by
\* 1 + 0.5 * fear, +s for the flexor and -s for the extensor.
C19_ModulationInEffectAtStep ==
    [][(segmentOp.op = "set_emotional_modulation" /\ segmentOp'.op = "step")
          => /\ segment'.flexor.spindle_feedback
                    = FMul(SpindleSignal(segment, segmentOp'),
                           GammaGain(segmentOp.fear))
             /\ segment'.extensor.spindle_feedback
                    = -FMul(SpindleSignal(segment, segmentOp'),
                            GammaGain(segmentOp.fear))
      ]_vars


(***************************************************************************)
(* Claims about the tendon                                                 *)
(***************************************************************************)
TraceLossNonDecreasing ==
    \A k \in 2 .. Len(tendonTrace) :
        tendonTrace[k].loss >= tendonTrace[k - 1].loss

TraceHasNoReset ==
    \A k \in 1 .. Len(tendonTrace) : tendonTrace[k].op # "reset_hysteresis"

\* The run so far is the strain cycle: from the constructed tendon, 2 *
\* RampHalfSteps compute_stress calls whose strain ramps from 0 up to 0.05
\* and back to 0 in equal steps, each with the signed rate of change of the
\* strain as its strain_rate.
TraceIsRampCycle ==
    /\ Len(tendonTrace) = 2 * RampHalfSteps
    /\ \A k \in 1 .. Len(tendonTrace) :
          /\ tendonTrace[k].op = "compute_stress"
          /\ tendonTrace[k].strain = RampStrain(k)
          /\ tendonTrace[k].dt = RampDt
          /\ tendonTrace[k].strain_rate =
                FDiv(RampStrain(k) - RampStrain(k - 1), RampDt)

\* C9: without reset_hysteresis, hysteresis_loss never decreases, and over
\* the strain cycle that ramps up and back down it ends strictly greater
\* than it started (it starts at 0).
C9_HysteresisGrowsOverCycle ==
    /\ TraceHasNoReset => TraceLossNonDecreasing
    /\ TraceIsRampCycle => tendon.hysteresis_loss > 0


(***************************************************************************)
(* Claims about the metabolism                                             *)
(***************************************************************************)
\* C10: from the initial state, with zero activation on every update, ATP
\* stays at 1, PCr stays at 1, lactate stays at 0 (it never rises above its
\* idle level) and fatigue_factor stays below 0.01.
C10_IdleKeepsRestingState ==
    metaIdle =>
        /\ metabolism.ATP = ONE
        /\ metabolism.PCr = ONE
        /\ metabolism.lactate = 0
        /\ get_fatigue_factor(metabolism) < Dec(1, 100)

(***************************************************************************)
(* Claims about the engine facade                                          *)
(***************************************************************************)
\* C2: after Engine::set_accuracy(tier) followed by one Muscle::step, every
\* fiber of the muscle has a grid as long as the grid size of the new tier
\* (Realtime 10, Standard 100, High 200, Extreme 1000).
C2_StepAdoptsNewTier ==
    (engineOp.op = "Muscle::step" /\ engineOp.after.op = "set_accuracy")
        => Len(engineMuscle.fiber.n) = TierGridSize(engineOp.after.accuracy)

WinnerReturned ==
    initWinner # NoCall /\ initPc[initWinner.thread] = "idle"

\* At most one call is past the latch, it is the first one that passed, and
\* once it has returned its recorder and its grid size are in place.
OneCallApplies ==
    /\ initPassed <= 1
    /\ initCalls > 0 => initPassed = 1
    /\ \A t \in Threads :
           initPc[t] # "idle" => initWinner # NoCall /\ initWinner.thread = t
    /\ WinnerReturned =>
           /\ GRID_SIZE = TierGridSize(initWinner.cfg.accuracy)
           /\ t_recorder[initWinner.thread] = DataRecorder

\* A call that does not pass the latch changes nothing, and the only writes
\* an initialize call makes are the winner's: its own configuration, its own
\* recorder and the grid size of its tier.
OnlyWinnerWrites ==
    /\ (initCalls' = initCalls + 1 /\ initPassed' = initPassed)
           => UNCHANGED engineState
    /\ \A t \in Threads :
           t_config'[t] # t_config[t] =>
               \/ accuracyCalls' = accuracyCalls + 1
               \/ /\ initWinner # NoCall /\ initWinner.thread = t
                  /\ t_config'[t] = initWinner.cfg
    /\ \A t \in Threads :
           t_recorder'[t] # t_recorder[t] =>
               initWinner # NoCall /\ initWinner.thread = t
    /\ GRID_SIZE' # GRID_SIZE =>
           /\ initWinner # NoCall
           /\ GRID_SIZE' = TierGridSize(initWinner.cfg.accuracy)

\* C3: for any number of Engine::initialize calls, in any interleaving across
\* threads, exactly one call (the first to pass the latch) applies its
\* configuration and grid size; every other call changes no state (config,
\* recorder and grid size are left as they were).
C3_OnlyFirstInitializeApplies == []OneCallApplies /\ [][OnlyWinnerWrites]_vars

\* Two threads have called initialize with different configurations: the
\* first has returned with its configuration and grid size applied, the other
\* did not pass the latch and has the default configuration and no recorder.
C3_Witness ==
    /\ WinnerReturned
    /\ t_config[initWinner.thread] = initWinner.cfg
    /\ GRID_SIZE = TierGridSize(initWinner.cfg.accuracy)
    /\ \E t \in Threads \ {initWinner.thread} :
           /\ engineLast[t].op = "initialize"
           /\ ~engineLast[t].passed
           /\ engineLast[t].cfg # initWinner.cfg
           /\ t_config[t] = Config
           /\ t_recorder[t] = NULL

\* C4: on each thread that has called Engine::initialize, get_config returns
\* the configuration the thread passed and get_recorder returns a non-null
\* recorder of its own.
C4_EachCallerOwnsPipeline ==
    \A t \in Threads :
        engineLast[t].op = "initialize" =>
            /\ get_config(t) = engineLast[t].cfg
            /\ get_recorder(t) # NULL

(***************************************************************************)
(* Claims about the actor                                                  *)
(***************************************************************************)
FramesDue(id) == {f \in 1 .. actorFrames[id] : f % 4 = 0}
FramesLogged(id) ==
    {metabolismLog[id][k].frame : k \in 1 .. Len(metabolismLog[id])}

\* C5: for every actor, metabolism.update is invoked on exactly every 4th
\* update of that actor (its frames 4, 8, 12, ...) and on no other frame,
\* each time with 4 * dt, also when several actors are updated in the same
\* process.
C5_MetabolismEveryFourthFrame ==
    \A id \in ActorIds :
        /\ FramesLogged(id) = FramesDue(id)
        /\ \A k \in 1 .. Len(metabolismLog[id]) :
               metabolismLog[id][k].dt
                   = FMul(metabolismLog[id][k].frame_dt, 4 * ONE)

InUnitRange(v) == 0 <= v /\ v <= ONE

\* C7: after every actor update, whatever the stimuli (intensity,
\* familiarity, predictability, urgency each in [0,1]), every primary and
\* social channel of the actor's current emotion lies in [0,1], and
\* mood.depression and mood.stress lie in [0,1].
C7_EmotionChannelsInUnitRange ==
    \A id \in ActorIds :
        LET e == actors[id].current_emotion IN
        /\ \A channel \in DOMAIN e.primary : InUnitRange(e.primary[channel])
        /\ \A channel \in DOMAIN e.social : InUnitRange(e.social[channel])
        /\ InUnitRange(e.mood.depression)
        /\ InUnitRange(e.mood.stress)

(***************************************************************************)
(* Claims about the metabolic pools                                        *)
(***************************************************************************)
Within(v, lo, hi) == lo <= v /\ v <= hi

\* C11: after any sequence of MetabolicSystem::update calls, with positive,
\* zero or negative activation, ATP is in [0,1], PCr in [0.3,1], glycogen in
\* [0,1], lactate in [0,1], pyruvate in [0,0.2], the fatigue factor is in
\* [0,1] and the Borg RPE in [6,20].
C11_PoolsStayInRange ==
    /\ Within(metabolism.ATP, 0, ONE)
    /\ Within(metabolism.PCr, Dec(3, 10), ONE)
    /\ Within(metabolism.glycogen, 0, ONE)
    /\ Within(metabolism.lactate, 0, ONE)
    /\ Within(metabolism.pyruvate, 0, Dec(2, 10))
    /\ Within(get_fatigue_factor(metabolism), 0, ONE)
    /\ Within(get_perceived_exertion(metabolism), 6 * ONE, 20 * ONE)

\* Updates have driven ATP and PCr onto their lower bounds.
C11_Witness ==
    /\ metaUpdates > 1
    /\ ~metaIdle
    /\ metabolism.ATP = 0
    /\ metabolism.PCr = Dec(3, 10)

(***************************************************************************)
(* Claims about the skeleton and the pose buffer                           *)
(***************************************************************************)
\* C12: for every joint, the spine and the shoulder with their own capsule
\* included, and every axis, the angle lies within the joint's capsule
\* interval [limit_min, limit_max] after any sequence of compute_torque and
\* forward_dynamics calls.
C12_AnglesWithinCapsule ==
    \A i \in 1 .. Len(skeleton.joints) : \A axis \in 1 .. 3 :
        Within(skeleton.joints[i].angle[axis],
               skeleton.joints[i].capsule.limit_min[axis],
               skeleton.joints[i].capsule.limit_max[axis])

\* forward_dynamics has stopped the shoulder at its own upper limit on one
\* axis and at its own lower limit on another.
C12_Witness ==
    /\ skelOp = [op |-> "forward_dynamics", joint |-> SHOULDER + 1]
    /\ skeleton.joints[SHOULDER + 1].angle[1] = Dec(5, 10)
    /\ skeleton.joints[SHOULDER + 1].angle[2] = -ONE

PoseShape == Len(pose.rotation_z) = pose.bone_count

DroppedWrite ==
    skelOp'.op = "write_bone_channel" /\ skelOp'.bone_index >= pose.bone_count
        => pose' = pose

SkeletonWriteStaysInRange ==
    skelOp'.op = "write_to_pose_buffer" =>
        /\ pose'.bone_count = pose.bone_count
        /\ \A k \in 1 .. Len(pose.rotation_z) :
               k - 1 >= Min(Len(skeleton.joints), pose.bone_count)
                   => pose'.rotation_z[k] = pose.rotation_z[k]

\* C13: a pose write touches only bone slots with index below
\* min(joint_count, bone_count): write_bone_channel with bone_index >=
\* bone_count leaves the buffer unchanged, the rotation vector always has
\* exactly bone_count entries, and a skeleton write leaves the slots from
\* joint_count on as they were.
C13_PoseWritesStayInRange ==
    []PoseShape /\ [][DroppedWrite /\ SkeletonWriteStaysInRange]_vars

\* The skeleton has been written to a buffer with more bones than joints
\* whose last slot held a value.
C13_Witness ==
    /\ skelOp.op = "write_to_pose_buffer"
    /\ pose.bone_count > Len(skeleton.joints)
    /\ pose.rotation_z[pose.bone_count] # 0

(***************************************************************************)
(* Claims about the appraisal stage of the actor                           *)
(***************************************************************************)
\* The appraisal results of the stimuli of an input that were not zeroed,
\* each appraised against the context update builds for it.
KeptResults(input) ==
    LET ctx == [ delta_time |-> 0,
                 parameters |-> [ self_efficacy |-> Dec(7, 10),
                                  self_esteem |-> Dec(8, 10) ],
                 emotion |-> [mood |-> [stress |-> 0]] ]
        results == {appraise(input.cognitive_stimuli[k], ctx) :
                       k \in 1 .. Len(input.cognitive_stimuli)}
    IN  {r.emotion : r \in {x \in results : x.goal_relevance >= Dec(2, 10)}}

\* The largest value of a set of values, 0 when it is empty.
SetMax(values) ==
    IF values = {} THEN 0
    ELSE CHOOSE m \in values : \A v \in values : v <= m

\* C14: after the appraisal stage of a frame, each of the 8 primary and the
\* 8 social channels of the actor's current emotion is the maximum of that
\* channel over the appraisal results of the frame's stimuli that were not
\* zeroed, and 0 when there is none.
C14_EveryChannelIsMaximum ==
    \A id \in ActorIds :
        actorFrames[id] > 0 =>
            LET kept == KeptResults(actorInput[id])
                e == actors[id].current_emotion
            IN  /\ \A c \in DOMAIN e.primary :
                       e.primary[c] = SetMax({r.primary[c] : r \in kept})
                /\ \A c \in DOMAIN e.social :
                       e.social[c] = SetMax({r.social[c] : r \in kept})

EvaluatedWithThreat(id) ==
    /\ actorFrames[id] = 1
    /\ Len(actorInput[id].cognitive_stimuli) = 1
    /\ actorInput[id].cognitive_stimuli[1].urgency = Dec(9, 10)

\* C15: for one frame evaluated with threat_distance = 0.25 and
\* threat_urgency = 0.9 on a fresh actor, the stimulus intensity is 0.8, the
\* fear output is at least 0.8 and at most 1, and the trapezius override
\* step receives the activation 0.56.
C15_TrapeziusReceives056 ==
    \A id \in ActorIds :
        EvaluatedWithThreat(id) =>
            /\ actorInput[id].cognitive_stimuli[1].intensity = Dec(8, 10)
            /\ Within(actors[id].current_emotion.primary.fear, Dec(8, 10), ONE)
            /\ trap_activation(actors[id].current_emotion) = Dec(56, 100)

\* The appraisal context of a frame of the actor id that carries the mood
\* stress the actor's previous update left.
CarriedContext(id) ==
    [ delta_time |-> 0,
      parameters |-> [self_efficacy |-> Dec(7, 10), self_esteem |-> Dec(8, 10)],
      emotion |-> [mood |->
          [stress |-> MoodDynamics_get_state(actors[id].mood).stress]] ]

\* C20: in frame k the stress of the appraisal context of every stimulus is
\* the mood stress the actor carried out of frame k - 1, so the fear of the
\* frame's threat is amplified by 1 + 0.5 * that stress.
C20_AppraisalUsesCarriedStress ==
    [][\A id \in ActorIds :
          (/\ actorFrames'[id] = actorFrames[id] + 1
           /\ Len(actorInput'[id].cognitive_stimuli) > 0)
          => actors'[id].current_emotion.primary.fear
                = appraise(actorInput'[id].cognitive_stimuli[1],
                           CarriedContext(id)).emotion.primary.fear
      ]_vars

\* goal_relevance of a stimulus: urgency * intensity
GoalRelevance(stim) == FMul(stim.urgency, stim.intensity)

\* The latest frame of the actor id had exactly one stimulus, a threat.
OneThreatFrame(id) ==
    /\ actorFrames[id] >= 1
    /\ Len(actorInput[id].cognitive_stimuli) = 1
    /\ actorInput[id].cognitive_stimuli[1].category = "threat"

\* C21: a stimulus contributes its appraised emotion to the emotion of the
\* frame exactly when its goal_relevance is not below 0.2, the value 0.2
\* included: the appraiser keeps the emotion and the actor blends it for the
\* same stimuli.
C21_ContributesFromThreshold ==
    \A id \in ActorIds :
        OneThreatFrame(id) =>
            LET stim == actorInput[id].cognitive_stimuli[1]
                kept == appraise(stim, CarriedContext(id)).emotion
                            # EmotionProfile
                blended == actors[id].current_emotion.primary.fear > 0
            IN  /\ kept <=> GoalRelevance(stim) >= Dec(2, 10)
                /\ blended <=> GoalRelevance(stim) >= Dec(2, 10)

\* The indices at which update_muscles_parallel reads
\* bridge.muscle_activations in an update of the actor id: those of its
\* muscles.
ActivationIndicesRead(id) == 0 .. (Len(actors[id].muscles) - 1)

\* C22: in every update, every index at which update_muscles_parallel reads
\* bridge.muscle_activations is smaller than the length of the vector the
\* spinal cord returned for the frame.
C22_ActivationReadsInBounds ==
    \A id \in ActorIds :
        actorFrames[id] >= 1 =>
            /\ actors[id].bridge.muscle_activations
                   = get_muscle_activations(actors[id].spinal_cord)
            /\ \A i \in ActivationIndicesRead(id) :
                   i < Len(actors[id].bridge.muscle_activations)

\* C23: the activation the actor passes to metabolism.update is never
\* negative, whatever the signs of the desired torques, so the ATP
\* hydrolysis flux 0.05 * activation is never negative.
C23_MetabolicActivationNonNegative ==
    \A id \in ActorIds :
        \A k \in 1 .. Len(metabolismLog[id]) :
            /\ metabolismLog[id][k].muscle_activation >= 0
            /\ FMul(Dec(5, 100), metabolismLog[id][k].muscle_activation) >= 0

\* The latest evaluation of the default actor had desired_torques = t.
EvaluatedWithTorque == Len(defaultInput.desired_joint_torques) = 1

\* C25: when a default-constructed actor is evaluated with the context
\* parameter desired_torques = t, the spinal step of the frame is executed:
\* the central drives of segment 0 are max(t, 0) for the flexor and
\* max(-t, 0) for the extensor, clamped to [0, 1].
C25_TorqueReachesSpinalCord ==
    EvaluatedWithTorque =>
        LET t == defaultInput.desired_joint_torques[1] IN
        /\ defaultActor.spinal_cord[1].flexor.central_drive
               = Clamp(Max(t, 0), 0, ONE)
        /\ defaultActor.spinal_cord[1].extensor.central_drive
               = Clamp(Max(-t, 0), 0, ONE)


(***************************************************************************)
(* Claims about the tendon in linear mode                                  *)
(***************************************************************************)
\* The last call on the tendon was a compute_stress made in linear mode with
\* a strain within [0, epsilon_max].
LinearModeStress ==
    /\ tendon.viscosity = 0
    /\ tendon.E_nonlinear = 0
    /\ Len(tendonTrace) > 0
    /\ tendonTrace[Len(tendonTrace)].op = "compute_stress"
    /\ Within(tendonTrace[Len(tendonTrace)].strain, 0, tendon.epsilon_max)

\* C24: after set_linear_mode, compute_stress returns E_linear * strain for
\* every strain in [0, epsilon_max], whatever the strain rate and the
\* history, and so a positive stress for a positive strain.
C24_LinearModeIsLinearElastic ==
    LinearModeStress =>
        /\ tendonOut = tendon.E_linear * tendonTrace[Len(tendonTrace)].strain
        /\ tendonTrace[Len(tendonTrace)].strain > 0 => tendonOut > 0


(***************************************************************************)
(* Claims about the telemetry recorder                                     *)
(***************************************************************************)
\* The rows the sink has to hold for the samples recorded so far.
RecordedRows == [k \in 1 .. Len(recorded) |-> recorded[k].emotion_vector]

\* C16: after any sequence of record_frame calls followed by the teardown of
\* the recorder, the sink holds every recorded sample exactly once and in
\* record order, and the buffer never holds more than 1024 samples.
C16_EverySampleWrittenOnce ==
    /\ Len(dataRecorder.buffer) <= BUFFER_SIZE
    /\ recorderOp.op = "teardown" => dataRecorder.disk = RecordedRows

(***************************************************************************)
(* Claims about the muscle fibers                                          *)
(***************************************************************************)
\* C17: after every HuxleyFiber::step, whatever the activation, the velocity
\* and dt and whatever grid size was set since the step before, the grid n
\* of the fiber has GRID_SIZE bins and every bin is within [0, 1].
C17_GridSizedAndInUnitRange ==
    fiberOp.op = "step" =>
        /\ Len(huxleyFiber.n) = GRID_SIZE
        /\ \A i \in 1 .. Len(huxleyFiber.n) :
               Within(huxleyFiber.n[i], 0, ONE)

\* A step on a grid that grew since the step before, from bins at 1, with a
\* drive that empties bins: bins at both ends of the range.
C17_Witness ==
    /\ fiberOp.op = "step"
    /\ Len(fiberOp.before) < GRID_SIZE
    /\ \E i \in 1 .. Len(fiberOp.before) : fiberOp.before[i] = ONE
    /\ \E i \in 1 .. Len(huxleyFiber.n) : huxleyFiber.n[i] = 0
    /\ \E i \in 1 .. Len(huxleyFiber.n) : huxleyFiber.n[i] > 0

=============================================================================
